---------------------------- MODULE Spec2Model ----------------------------
(***************************************************************************)
(* A model of the DEET resume/job pipeline core:                           *)
(*   - modules/deduplicator.py   (JobDeduplicator, compute_hash)           *)
(*   - backend/matcher.py        (match_jobs, batch_calculate_matches)     *)
(*   - modules/confidence_scorer.py (score_profile)                        *)
(*   - modules/nlp_extractor.py  (extract_profile)                         *)
(*                                                                         *)
(* Python strings are sequences of one-character strings, so that          *)
(* lower(), strip(), slicing, joining and tokenising are computed.         *)
(***************************************************************************)
EXTENDS Integers, Sequences, FiniteSets, TLC

VARIABLES
    \* JobDeduplicator fields (deduplicator.py:28-38)
    corpus, hashes, vectorizer, matrix, dirty,
    \* the last call made on the deduplicator and what it returned
    call,
    \* compute_hash: the arguments of two calls and what they returned
    hashArgs, hashRet,
    \* match_jobs (backend/matcher.py): the jobs passed in, the position in
    \* the call, the attempt counter of batch_calculate_matches, the calls made
    \* to the ranking service, the sleeps taken, the scores, the result and
    \* the last response of the service
    mJobs, mPc, mAttempt, mCalls, mSleeps, mScores, mResult, mLast,
    \* the local skill-overlap matcher: the profile's skills and years of
    \* experience, the job's skills, the position in the call and the score
    lmSkills, lmYears, lmJobSkills, lmPc, lmScore,
    \* score_profile (confidence_scorer.py): the profile passed in, the index
    \* of the last field set while it was put together, the number of fields
    \* set, the position in the call and the scores returned
    spProfile, spLast, spEdits, spPc, spScores,
    \* _score_email: the value passed in, the position and the score
    emValue, emPc, emScore,
    \* extract_profile (nlp_extractor.py): the raw text passed in, how the
    \* entity-recognition stage behaves, the position, the profile returned
    \* and the scores score_profile gives it
    exText, exNer, exPc, exProfile, exScores,
    \* _split_sections(_normalize_text(text)): the lines of the text passed
    \* in, the position and the sections returned
    ssLines, ssPc, ssSections,
    \* get_confidence_label: the scores of two calls, in thousandths, the
    \* position and the labels returned
    lbScores, lbPc, lbLabels,
    \* backend/parser.py: the uploaded file, the entity model, the position
    \* of parse_resume and the profile it returns
    prFile, prNlp, prPc, prProfile,
    \* app.py, modules/scheduler.py, database.py: the bootstrap position, the
    \* committed rows of the jobs table, the connection holding the write
    \* transaction, the JobDeduplicator instances and the threads inside a
    \* mutating call on each, the request and crawl threads, the number of
    \* crawl runs and POSTs so far, and the responses sent to POST /api/jobs/add
    svBoot, svRows, svLock, svIndex, svBusy, svThread, svRuns, svPosts, svLog,
    \* modules/job_classifier.py: the model file on disk, the jobs the caller
    \* holds, the number of times the model file has been read, the number
    \* of classify_job calls, and the last call
    clModel, clInput, clReads, clCalls, clLast,
    \* the phone scorer: the value scored, where the call is, the score
    phValue, phPc, phScore,
    \* the add_job calls made on one index that returned True
    atAdded

dedupVars == <<corpus, hashes, vectorizer, matrix, dirty, call>>
hashVars == <<hashArgs, hashRet>>
matchVars == <<mJobs, mPc, mAttempt, mCalls, mSleeps, mScores, mResult, mLast>>
localVars == <<lmSkills, lmYears, lmJobSkills, lmPc, lmScore>>
scoreVars == <<spProfile, spLast, spEdits, spPc, spScores>>
emailVars == <<emValue, emPc, emScore>>
extractVars == <<exText, exNer, exPc, exProfile, exScores>>
sectionVars == <<ssLines, ssPc, ssSections>>
labelVars == <<lbScores, lbPc, lbLabels>>
parserVars == <<prFile, prNlp, prPc, prProfile>>
serverVars == <<svBoot, svRows, svLock, svIndex, svBusy, svThread, svRuns, svPosts, svLog>>
classifierVars == <<clModel, clInput, clReads, clCalls, clLast>>
phoneVars == <<phValue, phPc, phScore>>
atomicVars == <<atAdded>>
vars ==
    <<dedupVars, hashVars, matchVars, localVars, scoreVars, emailVars,
      extractVars, sectionVars, labelVars, parserVars, serverVars,
      classifierVars, phoneVars, atomicVars>>

(***************************************************************************)
(* Strings                                                                 *)
(***************************************************************************)
\* F(v), with v evaluated once: a local name whose value is computed when it
\* is bound
Bind(v, F(_)) == CHOOSE r \in {F(x) : x \in {v}} : TRUE

SeqsUpTo(S, n) == UNION {[1..k -> S] : k \in 0..n}

Min(a, b) == IF a <= b THEN a ELSE b
Max(a, b) == IF a >= b THEN a ELSE b

\* the ASCII letters, in order, and the digits
LowerSeq ==
    <<"a", "b", "c", "d", "e", "f", "g", "h", "i", "j", "k", "l", "m", "n",
      "o", "p", "q", "r", "s", "t", "u", "v", "w", "x", "y", "z">>

UpperSeq ==
    <<"A", "B", "C", "D", "E", "F", "G", "H", "I", "J", "K", "L", "M", "N",
      "O", "P", "Q", "R", "S", "T", "U", "V", "W", "X", "Y", "Z">>

LowerLetters == {LowerSeq[i] : i \in DOMAIN LowerSeq}
UpperLetters == {UpperSeq[i] : i \in DOMAIN UpperSeq}
Digits == {"0", "1", "2", "3", "4", "5", "6", "7", "8", "9"}

\* str.lower() on one character
LowerChar(c) ==
    IF c \in UpperLetters THEN LowerSeq[CHOOSE i \in DOMAIN UpperSeq : UpperSeq[i] = c]
    ELSE c

\* str.upper() on one character
UpperChar(c) ==
    IF c \in LowerLetters THEN UpperSeq[CHOOSE i \in DOMAIN LowerSeq : LowerSeq[i] = c]
    ELSE c

\* str.lower()
Lower(s) == [i \in 1..Len(s) |-> LowerChar(s[i])]

\* str.isspace() on one character
IsSpace(c) == c \in {" ", "\t", "\n"}

\* regex \w on one character
IsWordChar(c) == c \in LowerLetters \cup UpperLetters \cup Digits \cup {"_"}

RECURSIVE LStrip(_)
LStrip(s) == IF s # <<>> /\ IsSpace(Head(s)) THEN LStrip(Tail(s)) ELSE s

RECURSIVE RStrip(_)
RStrip(s) ==
    IF s # <<>> /\ IsSpace(s[Len(s)]) THEN RStrip(SubSeq(s, 1, Len(s) - 1)) ELSE s

\* str.strip()
Strip(s) == RStrip(LStrip(s))

\* s[:n]
Prefix(s, n) == SubSeq(s, 1, Min(Len(s), n))

\* sep.join(parts)
RECURSIVE Join(_, _)
Join(sep, parts) ==
    IF parts = <<>> THEN <<>>
    ELSE IF Len(parts) = 1 THEN parts[1]
    ELSE parts[1] \o sep \o Join(sep, Tail(parts))

\* [p for p in parts if p]
RECURSIVE NonEmpty(_)
NonEmpty(parts) ==
    IF parts = <<>> THEN <<>>
    ELSE IF Head(parts) = <<>> THEN NonEmpty(Tail(parts))
    ELSE <<Head(parts)>> \o NonEmpty(Tail(parts))

(***************************************************************************)
(* deduplicator.py: hashing and job text                                   *)
(***************************************************************************)
\* dict.get(key, "")
Get(job, key) == IF key \in DOMAIN job THEN job[key] ELSE <<>>

\* hashlib.sha256(raw.encode()).hexdigest(): a digest string that names its
\* preimage (SHA-256 taken as collision-free).
Sha256(raw) == <<"#">> \o raw

NormField_NoStrip(s) == Lower(s)

NormField(s) == Strip(Lower(s))

HashRaw(title, company, location) ==
    NormField(title) \o <<"|">> \o NormField(company) \o <<"|">> \o NormField(location)

compute_hash(title, company, location) == Sha256(HashRaw(title, company, location))

\* h = job.get("content_hash") or _compute_hash(...)
JobHash(job) ==
    IF Get(job, "content_hash") # <<>> THEN Get(job, "content_hash")
    ELSE compute_hash(Get(job, "title"), Get(job, "company"), Get(job, "location"))

DescCap == 500

job_to_text(job) ==
    Lower(Join(<<" ">>, NonEmpty(<<Get(job, "title"), Get(job, "company"),
                                  Get(job, "location"),
                                  Prefix(Get(job, "description"), DescCap)>>)))

(***************************************************************************)
(* Job records offered to the deduplicator.  A key that is absent from the *)
(* record is a key absent from the dict.                                   *)
(***************************************************************************)
JobBase ==
    [title |-> <<"a", "b">>, company |-> <<"b", "a">>, location |-> <<"a", "a">>,
     description |-> <<"b", "b">>]

\* JobBase up to case: another record with the same hash
JobCased ==
    [title |-> <<"A", "b">>, company |-> <<"b", "a">>, location |-> <<"a", "a">>,
     description |-> <<"b", "b">>]

\* the terms of JobBase under another hash
JobBar ==
    [title |-> <<"a", "b", "|">>, company |-> <<"b", "a">>, location |-> <<"a", "a">>,
     description |-> <<"b", "b">>]

\* content unrelated to JobBase, hash precomputed by the scraper
JobOther ==
    [title |-> <<"e", "e">>, company |-> <<"e", "a">>, location |-> <<>>,
     description |-> <<"a", "e">>,
     content_hash |-> compute_hash(<<"e", "e">>, <<"e", "a">>, <<>>)]

\* a record with missing keys whose text holds a stop word and a one-letter
\* word only: it has no terms
JobBare == [title |-> <<"b", "e">>, company |-> <<"a">>]

Jobs == {JobBase, JobCased, JobBar, JobOther, JobBare}

\* the lists handed to load_existing_hashes
HashLists ==
    {<<JobHash(JobBase)>>, <<JobHash(JobOther), JobHash(JobBar)>>}

\* the lists handed to load_existing_jobs
LoadLists ==
    {<<JobBase>>, <<JobBase, JobOther>>, <<JobBare, JobBare>>}

(***************************************************************************)
(* The TF-IDF vectorizer the deduplicator is built on                      *)
(* (TfidfVectorizer(ngram_range=(1, 2), max_features=5000,                 *)
(*  stop_words="english"), deduplicator.py:32-36) and cosine_similarity.   *)
(* Weights are integers: idf is kept in tenths.  Rows are not              *)
(* L2-normalised, which the cosine does not see.  max_features is never    *)
(* reached by the vocabularies explored here.                              *)
(***************************************************************************)
\* token_pattern (?u)\b\w\w+\b: the maximal runs of two or more word characters
RECURSIVE TokScan(_, _, _)
TokScan(s, cur, acc) ==
    LET done == IF Len(cur) >= 2 THEN Append(acc, cur) ELSE acc
    IN  IF s = <<>> THEN done
        ELSE IF IsWordChar(Head(s)) THEN TokScan(Tail(s), Append(cur, Head(s)), acc)
        ELSE TokScan(Tail(s), <<>>, done)

Tokenize(text) == TokScan(Lower(text), <<>>, <<>>)

\* the members of sklearn's ENGLISH_STOP_WORDS that this alphabet can spell
StopWords == {<<"b", "e">>}

RECURSIVE DropStopWords(_)
DropStopWords(toks) ==
    IF toks = <<>> THEN <<>>
    ELSE IF Head(toks) \in StopWords THEN DropStopWords(Tail(toks))
    ELSE <<Head(toks)>> \o DropStopWords(Tail(toks))

\* the analyzer: unigrams, then bigrams of adjacent kept tokens
Analyze(text) ==
    LET toks == DropStopWords(Tokenize(text))
    IN  toks \o [i \in 1..(Len(toks) - 1) |-> toks[i] \o <<" ">> \o toks[i + 1]]

\* the analysis of the texts of the job records, computed once
AnalysisOf == [text \in {job_to_text(j) : j \in Jobs} |-> Analyze(text)]
Terms(text) == IF text \in DOMAIN AnalysisOf THEN AnalysisOf[text] ELSE Analyze(text)

TermSet(terms) == {terms[i] : i \in DOMAIN terms}

\* term frequency
Tf(term, terms) == Cardinality({i \in DOMAIN terms : terms[i] = term})

\* round(1000 * ln k)
LnMilli ==
    <<0, 693, 1099, 1386, 1609, 1792, 1946, 2079, 2197, 2303, 2398, 2485,
      2565, 2639, 2708, 2773, 2833, 2890, 2944, 2996, 3045, 3091, 3135, 3178>>

\* smooth idf, ln((1 + n) / (1 + df)) + 1, in tenths
Idf10(n, df) == (LnMilli[1 + n] - LnMilli[1 + df] + 1000 + 50) \div 100

NotFitted == [fitted |-> FALSE, vocabulary |-> {}, idf |-> <<>>]
NoMatrix == [built |-> FALSE, cols |-> {}, rows |-> <<>>]

\* vectorizer.transform([text]) under a fit
Transform(vec, text) ==
    LET terms == Terms(text)
    IN  [cols |-> vec.vocabulary,
         vec |-> [t \in vec.vocabulary |-> Tf(t, terms) * vec.idf[t]]]

\* vectorizer.fit_transform(docs): raises ValueError on an empty vocabulary,
\* leaving the vectorizer as it was
DocFreq(t, docs) == Cardinality({i \in DOMAIN docs : Tf(t, Terms(docs[i])) > 0})

FitTransform(docs) ==
    Bind(UNION {TermSet(Terms(docs[i])) : i \in DOMAIN docs}, LAMBDA vocab :
    Bind([t \in vocab |-> Idf10(Len(docs), DocFreq(t, docs))], LAMBDA idf :
        [raised |-> vocab = {},
         vectorizer |-> [fitted |-> TRUE, vocabulary |-> vocab, idf |-> idf],
         matrix |-> [built |-> TRUE, cols |-> vocab,
                     rows |-> [i \in DOMAIN docs |->
                                  [t \in vocab |-> Tf(t, Terms(docs[i])) * idf[t]]]]]))

RECURSIVE SumOver(_, _)
SumOver(S, f) ==
    IF S = {} THEN 0
    ELSE LET x == CHOOSE y \in S : TRUE IN f[x] + SumOver(S \ {x}, f)

Dot(cols, u, v) == SumOver(cols, [t \in cols |-> u[t] * v[t]])

\* a / b >= c / d for a, c >= 0 and b, d > 0, without forming the cross products
RECURSIVE FracGE(_, _, _, _)
FracGE(a, b, c, d) ==
    IF a \div b # c \div d THEN a \div b > c \div d
    ELSE IF c % d = 0 THEN TRUE
    ELSE IF a % b = 0 THEN FALSE
    ELSE FracGE(d, c % d, b, a % b)

COSINE_THRESHOLD_PCT == 85

\* cosine(q, row) >= threshold; the cosine of a zero vector is 0
CosineAtLeast(cols, q, row) ==
    Bind(<<Dot(cols, q, row), Dot(cols, q, q), Dot(cols, row, row)>>, LAMBDA d :
        IF d[2] = 0 \/ d[3] = 0 THEN FALSE
        ELSE FracGE(d[1] * d[1], d[2],
                    COSINE_THRESHOLD_PCT * COSINE_THRESHOLD_PCT * d[3], 100 * 100))

\* cosine_similarity(query_vec, matrix) raises ValueError when the widths differ
WidthMismatch(q, m) == Cardinality(q.cols) # Cardinality(m.cols)

\* sims.max() >= self.threshold
MaxSimAtLeast(q, m) ==
    \E i \in DOMAIN m.rows : CosineAtLeast(m.cols, q.vec, m.rows[i])

(***************************************************************************)
(* JobDeduplicator (deduplicator.py:22-107).  An operation takes the       *)
(* object's fields as a record and returns them with its result.           *)
(***************************************************************************)
Self == [corpus |-> corpus, hashes |-> hashes, vectorizer |-> vectorizer,
         matrix |-> matrix, dirty |-> dirty]

\* __init__
NewDeduplicator ==
    [corpus |-> <<>>, hashes |-> {}, vectorizer |-> NotFitted,
     matrix |-> NoMatrix, dirty |-> FALSE]

REBUILD_EVERY == 20

\* _rebuild_matrix: nothing below two texts; a fit that raises assigns nothing
rebuild_matrix(self) ==
    IF Len(self.corpus) < 2 THEN [raised |-> FALSE, self |-> self]
    ELSE Bind(FitTransform(self.corpus), LAMBDA fit :
             IF fit.raised THEN [raised |-> TRUE, self |-> self]
             ELSE [raised |-> FALSE,
                   self |-> [self EXCEPT !.vectorizer = fit.vectorizer,
                                         !.matrix = fit.matrix,
                                         !.dirty = FALSE]])

\* the try block of is_duplicate (lines 57-66): any exception is caught and
\* the check falls through to "return False"
NearDuplicate(self, job) ==
    IF ~self.vectorizer.fitted
    THEN [ret |-> FALSE, failed |-> TRUE, stale |-> FALSE, self |-> self]
    ELSE Bind(Transform(self.vectorizer, job_to_text(job)), LAMBDA q :
         Bind(self.dirty \/ ~self.matrix.built, LAMBDA rebuilt :
         Bind(IF rebuilt THEN rebuild_matrix(self)
              ELSE [raised |-> FALSE, self |-> self], LAMBDA r :
             IF r.raised
             THEN [ret |-> FALSE, failed |-> TRUE, stale |-> FALSE, self |-> r.self]
             ELSE IF WidthMismatch(q, r.self.matrix)
             THEN [ret |-> FALSE, failed |-> TRUE, stale |-> TRUE, self |-> r.self]
             ELSE [ret |-> MaxSimAtLeast(q, r.self.matrix), failed |-> FALSE,
                   stale |-> rebuilt, self |-> r.self])))

\* is_duplicate without its exact-hash check
is_duplicate_NoHashCheck(self, job) ==
    IF Len(self.corpus) >= 2 THEN NearDuplicate(self, job)
    ELSE [ret |-> FALSE, failed |-> FALSE, stale |-> FALSE, self |-> self]

\* is_duplicate
is_duplicate(self, job) ==
    IF JobHash(job) \in self.hashes
    THEN [ret |-> TRUE, failed |-> FALSE, stale |-> FALSE, self |-> self]
    ELSE IF Len(self.corpus) >= 2 THEN NearDuplicate(self, job)
    ELSE [ret |-> FALSE, failed |-> FALSE, stale |-> FALSE, self |-> self]

\* the insertion of add_job (lines 77-84)
Insert(self, job) ==
    [self EXCEPT !.hashes = @ \cup {JobHash(job)},
                 !.corpus = Append(@, job_to_text(job)),
                 !.dirty = TRUE]

\* add_job appending the text before it looks for a duplicate
add_job_AppendFirst(self, job) ==
    Bind(is_duplicate([self EXCEPT !.corpus = Append(@, job_to_text(job))], job),
         LAMBDA d :
        IF d.ret THEN [ret |-> FALSE, raised |-> FALSE, check |-> d, self |-> d.self]
        ELSE [ret |-> TRUE, raised |-> FALSE, check |-> d,
              self |-> [d.self EXCEPT !.hashes = @ \cup {JobHash(job)}, !.dirty = TRUE]])

\* add_job without the rebuild that follows the append
add_job_NoRebuild(self, job) ==
    Bind(is_duplicate(self, job), LAMBDA d :
        IF d.ret THEN [ret |-> FALSE, raised |-> FALSE, check |-> d, self |-> d.self]
        ELSE [ret |-> TRUE, raised |-> FALSE, check |-> d, self |-> Insert(d.self, job)])

\* add_job: raised when the rebuild of the 20th insertion raises
add_job(self, job) ==
    Bind(is_duplicate(self, job), LAMBDA d :
        IF d.ret THEN [ret |-> FALSE, raised |-> FALSE, check |-> d, self |-> d.self]
        ELSE Bind(Insert(d.self, job), LAMBDA s :
             Bind(IF Len(s.corpus) % REBUILD_EVERY = 0 THEN rebuild_matrix(s)
                  ELSE [raised |-> FALSE, self |-> s], LAMBDA r :
                 [ret |-> ~r.raised, raised |-> r.raised, check |-> d,
                  self |-> r.self])))

\* set(list)
ToSet(list) == {list[i] : i \in DOMAIN list}

\* a load that replaces the set instead of updating it
load_existing_hashes_Replace(self, hs) == [self EXCEPT !.hashes = ToSet(hs)]

\* load_existing_hashes
load_existing_hashes(self, hs) == [self EXCEPT !.hashes = @ \cup ToSet(hs)]

\* load_existing_jobs
load_existing_jobs(self, jobs) ==
    Bind([self EXCEPT !.corpus = @ \o [i \in DOMAIN jobs |-> job_to_text(jobs[i])]],
         LAMBDA s :
        IF Len(s.corpus) >= 2 THEN rebuild_matrix(s)
        ELSE [raised |-> FALSE, self |-> s])

MaxCorpus == 3

(***************************************************************************)
(* compute_hash as a function of its arguments (deduplicator.py:121-128).  *)
(* Two calls are made: the first on one of a few chosen triples, the       *)
(* second on any triple of strings of at most MaxStrLen characters.        *)
(***************************************************************************)
MaxStrLen == 1

HashAlphabet == {"a", "A", " ", "|"}

StringsUpTo(n) == UNION {[1..k -> HashAlphabet] : k \in 0..n}

SeedTriples ==
    {<<<<"a", "|">>, <<>>, <<"a">>>>,
     <<<<" ", "A", " ">>, <<"a">>, <<>>>>,
     <<<<"a">>, <<"A">>, <<" ">>>>,
     <<<<>>, <<>>, <<>>>>,
     <<<<"a", " ", "a">>, <<"|">>, <<"A">>>>,
     <<<<"|">>, <<>>, <<>>>>}

HashIdle == hashArgs = <<>> /\ hashRet = <<>>

ComputeHashes ==
    /\ hashRet = <<>>
    /\ hashRet' = [i \in 1..2 |->
                      compute_hash(hashArgs[i][1], hashArgs[i][2], hashArgs[i][3])]
    /\ UNCHANGED hashArgs

(***************************************************************************)
(* backend/matcher.py: match_jobs over the external ranking service.       *)
(* A response of the service is an error, text that is not JSON, or any    *)
(* JSON value; the items of a JSON list are objects or other values.       *)
(***************************************************************************)
MAX_RETRIES == 3
RETRY_DELAY == 2
DEFAULT_SCORE == 50

MaxJobs == 2

JobIds == {"j1", "j2"}

\* the items a JSON list of the service may hold
Item(isDict, hasScore, isNum, score, hasReason) ==
    [isDict |-> isDict, hasScore |-> hasScore, scoreIsNum |-> isNum, score |-> score,
     reason |-> IF hasReason THEN "from the service" ELSE "absent"]

Items ==
    {Item(TRUE, TRUE, TRUE, 90, TRUE),      \* {"score": 90, "reason": ...}
     Item(TRUE, TRUE, TRUE, 20, TRUE),      \* {"score": 20, "reason": ...}
     Item(TRUE, FALSE, FALSE, 0, TRUE),     \* {"reason": ...}
     Item(TRUE, TRUE, TRUE, 20, FALSE),     \* {"score": 20}
     Item(TRUE, TRUE, FALSE, 0, TRUE),      \* {"score": null, "reason": ...}
     Item(FALSE, FALSE, FALSE, 0, FALSE)}   \* 7

Response(kind, items) == [kind |-> kind, items |-> items]

Responses ==
    {Response(k, <<>>) : k \in {"error", "not_json", "scalar", "object"}}
        \cup {Response("list", items) : items \in SeqsUpTo(Items, MaxJobs)}

\* no response received yet
NoResponse == Response("none", <<>>)

\* _fallback_scores(count)
fallback_scores(count) ==
    [i \in 1..count |->
        [isDict |-> TRUE, hasScore |-> TRUE, scoreIsNum |-> TRUE,
         score |-> DEFAULT_SCORE, reason |-> "service unavailable"]]

\* the try block retrying where it should fall back: a list of another
\* length is treated as a failed attempt
TryAttempt_RetryOnMismatch(resp, n) ==
    IF resp.kind = "list" /\ Len(resp.items) = n
    THEN [outcome |-> "return", scores |-> resp.items]
    ELSE IF resp.kind = "object" THEN [outcome |-> "return", scores |-> fallback_scores(n)]
    ELSE [outcome |-> "except", scores |-> <<>>]

\* one pass of the try block of batch_calculate_matches (lines 67-87):
\* "return" with the scores returned, or "except" when an exception is caught.
\* len() of a JSON number, boolean or null raises inside the try block.
TryAttempt(resp, n) ==
    IF resp.kind \in {"error", "not_json"} THEN [outcome |-> "except", scores |-> <<>>]
    ELSE IF resp.kind = "list" /\ Len(resp.items) = n
    THEN [outcome |-> "return", scores |-> resp.items]
    ELSE IF resp.kind = "scalar" THEN [outcome |-> "except", scores |-> <<>>]
    ELSE [outcome |-> "return", scores |-> fallback_scores(n)]

\* score_data = scores[i] if i < len(scores) else {...}
ScoreData(scores, i) ==
    IF i <= Len(scores) THEN scores[i]
    ELSE [isDict |-> TRUE, hasScore |-> TRUE, scoreIsNum |-> TRUE,
          score |-> DEFAULT_SCORE, reason |-> "Could not evaluate match"]

\* {**job, "match_score": score_data.get("score", 50),
\*  "match_reason": score_data.get("reason", "No reason provided")}
Annotated(job, data) ==
    [job |-> job,
     scoreIsNum |-> IF data.hasScore THEN data.scoreIsNum ELSE TRUE,
     match_score |-> IF data.hasScore THEN data.score ELSE DEFAULT_SCORE,
     match_reason |-> IF data.reason = "absent" THEN "No reason provided"
                      ELSE data.reason]

\* insertion into a list ordered by non-increasing match_score, after the
\* entries of equal score
RECURSIVE InsertDesc(_, _)
InsertDesc(sorted, x) ==
    IF sorted = <<>> THEN <<x>>
    ELSE IF Head(sorted).match_score >= x.match_score
    THEN <<Head(sorted)>> \o InsertDesc(Tail(sorted), x)
    ELSE <<x>> \o sorted

\* sorted(results, key=lambda x: x["match_score"], reverse=True): stable
RECURSIVE SortedDesc(_)
SortedDesc(results) ==
    IF results = <<>> THEN <<>>
    ELSE InsertDesc(SortedDesc(SubSeq(results, 1, Len(results) - 1)),
                    results[Len(results)])

\* lines 29-38 of match_jobs: .get on an item that is no object raises
\* AttributeError; ordering two or more entries one of whose scores is no
\* number raises TypeError
AnnotateAndSort(jobs, scores) ==
    IF \E i \in DOMAIN jobs : ~ScoreData(scores, i).isDict
    THEN [raised |-> TRUE, result |-> <<>>]
    ELSE Bind([i \in DOMAIN jobs |-> Annotated(jobs[i], ScoreData(scores, i))],
              LAMBDA results :
             IF Len(results) >= 2 /\ \E i \in DOMAIN results : ~results[i].scoreIsNum
             THEN [raised |-> TRUE, result |-> <<>>]
             ELSE [raised |-> FALSE, result |-> SortedDesc(results)])

MatchIdle ==
    /\ mJobs = <<>>
    /\ mPc = "idle"
    /\ mAttempt = 0
    /\ mCalls = 0
    /\ mSleeps = <<>>
    /\ mScores = <<>>
    /\ mResult = <<>>
    /\ mLast = NoResponse

\* match_jobs is called: an empty list returns at once (lines 24-25)
MatchJobs ==
    /\ mPc = "called"
    /\ IF mJobs = <<>>
       THEN mPc' = "done" /\ mAttempt' = mAttempt
       ELSE mPc' = "attempt" /\ mAttempt' = 1
    /\ UNCHANGED <<mJobs, mCalls, mSleeps, mScores, mResult, mLast>>

\* one iteration of the retry loop (lines 66-90) and, after the last, the
\* fallback of lines 92-93
Attempt(resp) ==
    /\ mPc = "attempt"
    /\ mCalls' = mCalls + 1
    /\ mLast' = resp
    /\ \E t \in {TryAttempt(resp, Len(mJobs))} :
          IF t.outcome = "return"
          THEN /\ mScores' = t.scores
               /\ mPc' = "scored"
               /\ UNCHANGED <<mAttempt, mSleeps>>
          ELSE IF mAttempt < MAX_RETRIES
          THEN /\ mSleeps' = Append(mSleeps, RETRY_DELAY * mAttempt)
               /\ mAttempt' = mAttempt + 1
               /\ UNCHANGED <<mPc, mScores>>
          ELSE /\ mScores' = fallback_scores(Len(mJobs))
               /\ mPc' = "scored"
               /\ UNCHANGED <<mAttempt, mSleeps>>
    /\ UNCHANGED <<mJobs, mResult>>

\* the rest of match_jobs (lines 29-38)
Rank ==
    /\ mPc = "scored"
    /\ \E r \in {AnnotateAndSort(mJobs, mScores)} :
          /\ mPc' = IF r.raised THEN "raised" ELSE "done"
          /\ mResult' = r.result
    /\ UNCHANGED <<mJobs, mAttempt, mCalls, mSleeps, mScores, mLast>>

(***************************************************************************)
(* Regular expressions as re matches them: a pattern is a sequence of      *)
(* atoms, matched left to right, repetitions greedy, alternatives in       *)
(* order, backtracking on failure.                                         *)
(***************************************************************************)
\* the largest repetition count: no text is as long
Unbounded == 1000

NoMatchAt == -1

CharSet(chars, min, max) ==
    [kind |-> "set", chars |-> chars, atoms |-> <<>>, min |-> min, max |-> max]

\* (?: atoms ){min,max}
Group(atoms, min, max) ==
    [kind |-> "group", chars |-> {}, atoms |-> atoms, min |-> min, max |-> max]

\* (?: a1 | a2 | ... ): atoms holds one pattern per alternative
Alt(alternatives) ==
    [kind |-> "alt", chars |-> {}, atoms |-> alternatives, min |-> 1, max |-> 1]

\* the start of the capturing group whose text is asked for
GroupStart == [kind |-> "mark", chars |-> {}, atoms |-> <<>>, min |-> 1, max |-> 1]

\* \b, ^ and $
WordBoundary == [kind |-> "b", chars |-> {}, atoms |-> <<>>, min |-> 1, max |-> 1]
LineStart == [kind |-> "start", chars |-> {}, atoms |-> <<>>, min |-> 1, max |-> 1]
LineEnd == [kind |-> "end", chars |-> {}, atoms |-> <<>>, min |-> 1, max |-> 1]

\* a literal string, and a literal string under re.IGNORECASE
Lit(str) == [i \in 1..Len(str) |-> CharSet({str[i]}, 1, 1)]
LitI(str) == [i \in 1..Len(str) |-> CharSet({LowerChar(str[i]), UpperChar(str[i])}, 1, 1)]

Whitespace == {" ", "\t", "\n"}

\* the characters of the texts modelled
Chars ==
    LowerLetters \cup UpperLetters \cup Digits \cup Whitespace
        \cup {".", ",", "@", "_", "%", "+", "-", "(", ")", "/", ":", "|", "#"}

AtWordBoundary(s, i) ==
    (i > 1 /\ IsWordChar(s[i - 1])) # (i <= Len(s) /\ IsWordChar(s[i]))

\* the number of characters of s from position i on that are in chars, up to
\* the first that is not
RunLength(s, i, chars) ==
    LET out == {j \in i..Len(s) : s[j] \notin chars}
    IN  IF out = {} THEN Len(s) - i + 1
        ELSE (CHOOSE j \in out : \A k \in out : j <= k) - i

\* of pairs <<k, result>>, the result with the largest k, the one with the
\* smallest k
LastMatch(tries) ==
    IF tries = {} THEN NoMatchAt
    ELSE (CHOOSE t \in tries : \A u \in tries : u[1] <= t[1])[2]

\* the position after the match of atoms in s that starts at position i, or
\* NoMatchAt; with a GroupStart in atoms, Unbounded times its position is
\* added
RECURSIVE MatchAt(_, _, _)
RECURSIVE MatchAlt(_, _, _, _, _)
MatchAt(atoms, s, i) ==
    IF atoms = <<>> THEN i
    ELSE LET a == Head(atoms)
             rest == Tail(atoms)
             again == <<[a EXCEPT !.min = Max(0, a.min - 1), !.max = a.max - 1]>> \o rest
         IN  CASE a.kind = "b" ->
                    IF AtWordBoundary(s, i) THEN MatchAt(rest, s, i) ELSE NoMatchAt
               [] a.kind = "start" ->
                    IF i = 1 THEN MatchAt(rest, s, i) ELSE NoMatchAt
               [] a.kind = "end" ->
                    IF i = Len(s) + 1 \/ (i = Len(s) /\ s[i] = "\n")
                    THEN MatchAt(rest, s, i) ELSE NoMatchAt
               [] a.kind = "mark" ->
                    Bind(MatchAt(rest, s, i),
                         LAMBDA end : IF end # NoMatchAt THEN end + Unbounded * i
                                      ELSE NoMatchAt)
               [] a.kind = "alt" -> MatchAlt(a.atoms, 1, rest, s, i)
               [] a.kind = "set" ->
                    \* the longest repetition after which the rest matches
                    Bind({<<k, MatchAt(rest, s, i + k)>> :
                             k \in a.min..Min(a.max, RunLength(s, i, a.chars))},
                         LAMBDA tries : LastMatch({t \in tries : t[2] # NoMatchAt}))
               [] a.kind = "group" ->
                    Bind(IF a.max > 0 THEN MatchAt(a.atoms \o again, s, i) ELSE NoMatchAt,
                         LAMBDA more :
                            IF more # NoMatchAt THEN more
                            ELSE IF a.min <= 0 THEN MatchAt(rest, s, i)
                            ELSE NoMatchAt)

MatchAlt(alternatives, k, rest, s, i) ==
    IF k > Len(alternatives) THEN NoMatchAt
    ELSE Bind(MatchAt(alternatives[k] \o rest, s, i),
              LAMBDA end :
                 IF end # NoMatchAt THEN end
                 ELSE MatchAlt(alternatives, k + 1, rest, s, i))

NoMatch == [start |-> 0, stop |-> 0, group |-> 0]

\* pattern.search(s, i - 1): the leftmost match from position i on, as the
\* positions of its first character and after its last
SearchFrom(atoms, s, i) ==
    Bind({<<j, MatchAt(atoms, s, j)>> : j \in i..(Len(s) + 1)},
         LAMBDA tries :
            Bind({t \in tries : t[2] # NoMatchAt},
                 LAMBDA found :
                    IF found = {} THEN NoMatch
                    ELSE LET t == CHOOSE t \in found : \A u \in found : u[1] >= t[1]
                         IN  [start |-> t[1], stop |-> t[2] % Unbounded,
                              group |-> t[2] \div Unbounded]))

Search(atoms, s) == SearchFrom(atoms, s, 1)

Found(m) == m.start > 0

\* match.group(0)
Group0(s, m) == SubSeq(s, m.start, m.stop - 1)

\* match.group(1), for a group that ends where the match ends
Group1(s, m) == SubSeq(s, m.group, m.stop - 1)

\* re.sub(pattern, repl, s) from position i on, for a pattern that matches no
\* empty string
RECURSIVE SubFrom(_, _, _, _)
SubFrom(atoms, repl, s, i) ==
    Bind(SearchFrom(atoms, s, i),
         LAMBDA m :
            IF ~Found(m) THEN SubSeq(s, i, Len(s))
            ELSE SubSeq(s, i, m.start - 1) \o repl \o SubFrom(atoms, repl, s, m.stop))

Sub(atoms, repl, s) == SubFrom(atoms, repl, s, 1)

\* re.split(pattern, s) from position i on, for a pattern without groups
\* that matches no empty string
RECURSIVE SplitFrom(_, _, _)
SplitFrom(atoms, s, i) ==
    Bind(SearchFrom(atoms, s, i),
         LAMBDA m :
            IF ~Found(m) THEN <<SubSeq(s, i, Len(s))>>
            ELSE <<SubSeq(s, i, m.start - 1)>> \o SplitFrom(atoms, s, m.stop))

\* the matches pattern.finditer(s) yields from position i on
RECURSIVE FindAllFrom(_, _, _)
FindAllFrom(atoms, s, i) ==
    Bind(SearchFrom(atoms, s, i),
         LAMBDA m :
            IF ~Found(m) THEN <<>>
            ELSE <<m>> \o FindAllFrom(atoms, s, IF m.stop > m.start THEN m.stop
                                                ELSE m.stop + 1))

FindAll(atoms, s) == FindAllFrom(atoms, s, 1)

\* pattern.match(s) is not None
Matches(atoms, s) == MatchAt(atoms, s, 1) # NoMatchAt

(***************************************************************************)
(* modules/nlp_extractor.py                                                *)
(***************************************************************************)
\* \s*  and  s?
AnyWs == CharSet(Whitespace, 0, Unbounded)
OptS == CharSet({"s", "S"}, 0, 1)

\* str.splitlines()
RECURSIVE SplitLines(_)
SplitLines(s) ==
    IF s = <<>> THEN <<>>
    ELSE LET breaks == {i \in 1..Len(s) : s[i] = "\n"}
         IN  IF breaks = {} THEN <<s>>
             ELSE LET n == CHOOSE i \in breaks : \A k \in breaks : i <= k
                  IN  <<SubSeq(s, 1, n - 1)>> \o SplitLines(SubSeq(s, n + 1, Len(s)))

\* re.sub(r"\|", "l", text)
FixPipes(text) == [i \in 1..Len(text) |-> IF text[i] = "|" THEN "l" ELSE text[i]]

\* re.sub(r"(?<!\n)\n(?!\n)", " ", text)
JoinSingleBreaks(text) ==
    [i \in 1..Len(text) |->
        IF /\ text[i] = "\n"
           /\ (i = 1 \/ text[i - 1] # "\n")
           /\ (i = Len(text) \/ text[i + 1] # "\n")
        THEN " " ELSE text[i]]

\* _normalize_text
normalize_text(text) ==
    Strip(Sub(<<CharSet({" ", "\t"}, 2, Unbounded)>>, <<" ">>,
              Sub(<<CharSet({"\n"}, 3, Unbounded)>>, <<"\n", "\n">>,
                  JoinSingleBreaks(FixPipes(text)))))

\* SECTION_HEADERS, in the order of the dict
SECTION_HEADERS ==
    <<
     [name |-> "education",
      pattern |->
         <<LineStart, AnyWs,
           Alt(<<LitI(<<"e", "d", "u", "c", "a", "t", "i", "o", "n">>),
                LitI(<<"a", "c", "a", "d", "e", "m", "i", "c">>),
                LitI(<<"q", "u", "a", "l", "i", "f", "i", "c", "a", "t", "i", "o", "n">>),
                LitI(<<"d", "e", "g", "r", "e", "e">>)>>)>>
            \o <<OptS, AnyWs, LineEnd>>],
     [name |-> "work_experience",
      pattern |->
         <<LineStart, AnyWs,
           Alt(<<LitI(<<"w", "o", "r", "k">>) \o <<AnyWs>> \o LitI(<<"e", "x", "p", "e", "r", "i", "e", "n", "c", "e">>),
                LitI(<<"e", "m", "p", "l", "o", "y", "m", "e", "n", "t">>),
                LitI(<<"e", "x", "p", "e", "r", "i", "e", "n", "c", "e">>),
                LitI(<<"c", "a", "r", "e", "e", "r">>) \o <<AnyWs>> \o LitI(<<"h", "i", "s", "t", "o", "r", "y">>),
                LitI(<<"p", "r", "o", "f", "e", "s", "s", "i", "o", "n", "a", "l">>) \o <<AnyWs>> \o LitI(<<"e", "x", "p", "e", "r", "i", "e", "n", "c", "e">>)>>)>>
            \o <<AnyWs, LineEnd>>],
     [name |-> "skills",
      pattern |->
         <<LineStart, AnyWs,
           Alt(<<LitI(<<"s", "k", "i", "l", "l">>) \o <<OptS>>,
                LitI(<<"t", "e", "c", "h", "n", "i", "c", "a", "l">>) \o <<AnyWs>> \o LitI(<<"s", "k", "i", "l", "l">>) \o <<OptS>>,
                LitI(<<"c", "o", "r", "e">>) \o <<AnyWs>> \o LitI(<<"c", "o", "m", "p", "e", "t", "e", "n", "c">>),
                LitI(<<"e", "x", "p", "e", "r", "t", "i", "s", "e">>)>>)>>
            \o <<AnyWs, LineEnd>>],
     [name |-> "certifications",
      pattern |->
         <<LineStart, AnyWs,
           Alt(<<LitI(<<"c", "e", "r", "t", "i", "f">>),
                LitI(<<"l", "i", "c", "e", "n", "s", "e">>) \o <<OptS>>,
                LitI(<<"c", "r", "e", "d", "e", "n", "t", "i", "a", "l">>) \o <<OptS>>,
                LitI(<<"a", "c", "c", "r", "e", "d", "i", "t", "a", "t", "i", "o", "n">>)>>)>>
            \o <<AnyWs, LineEnd>>],
     [name |-> "projects",
      pattern |->
         <<LineStart, AnyWs,
           Alt(<<LitI(<<"p", "r", "o", "j", "e", "c", "t">>) \o <<OptS>>,
                LitI(<<"p", "o", "r", "t", "f", "o", "l", "i", "o">>),
                LitI(<<"k", "e", "y">>) \o <<AnyWs>> \o LitI(<<"p", "r", "o", "j", "e", "c", "t">>) \o <<OptS>>>>)>>
            \o <<AnyWs, LineEnd>>],
     [name |-> "summary",
      pattern |->
         <<LineStart, AnyWs,
           Alt(<<LitI(<<"s", "u", "m", "m", "a", "r", "y">>),
                LitI(<<"o", "b", "j", "e", "c", "t", "i", "v", "e">>),
                LitI(<<"p", "r", "o", "f", "i", "l", "e">>),
                LitI(<<"a", "b", "o", "u", "t">>) \o <<AnyWs>> \o LitI(<<"m", "e">>),
                LitI(<<"p", "r", "o", "f", "e", "s", "s", "i", "o", "n", "a", "l">>) \o <<AnyWs>> \o LitI(<<"s", "u", "m", "m", "a", "r", "y">>)>>)>>
            \o <<AnyWs, LineEnd>>],
     [name |-> "contact",
      pattern |->
         <<LineStart, AnyWs,
           Alt(<<LitI(<<"c", "o", "n", "t", "a", "c", "t">>),
                LitI(<<"p", "e", "r", "s", "o", "n", "a", "l">>) \o <<AnyWs>> \o LitI(<<"i", "n", "f", "o", "r", "m", "a", "t", "i", "o", "n">>),
                LitI(<<"p", "e", "r", "s", "o", "n", "a", "l">>) \o <<AnyWs>> \o LitI(<<"d", "e", "t", "a", "i", "l", "s">>)>>)>>
            \o <<AnyWs, LineEnd>>],
     [name |-> "references",
      pattern |->
         <<LineStart, AnyWs,
           Alt(<<LitI(<<"r", "e", "f", "e", "r", "e", "n", "c", "e">>) \o <<OptS>>,
                LitI(<<"r", "e", "f", "e", "r", "e", "e">>) \o <<OptS>>>>)>>
            \o <<AnyWs, LineEnd>>]
    >>

\* the name of the first header pattern that matches the line, "" if none does
RECURSIVE HeaderFrom(_, _)
HeaderFrom(line, k) ==
    IF k > Len(SECTION_HEADERS) THEN ""
    ELSE IF Matches(SECTION_HEADERS[k].pattern, line) THEN SECTION_HEADERS[k].name
    ELSE HeaderFrom(line, k + 1)

HeaderOf(line) == HeaderFrom(line, 1)

\* d[key] = value
DictSet(d, key, value) ==
    [x \in DOMAIN d \cup {key} |-> IF x = key THEN value ELSE d[x]]

\* the loop of _split_sections from line k on
RECURSIVE SplitLoop(_, _, _, _, _)
SplitLoop(lines, k, sections, current_section, current_lines) ==
    IF k > Len(lines)
    THEN DictSet(sections, current_section, Strip(Join(<<"\n">>, current_lines)))
    ELSE Bind(HeaderOf(lines[k]),
              LAMBDA name :
                 IF name # ""
                 THEN SplitLoop(lines, k + 1,
                                DictSet(sections, current_section,
                                        Strip(Join(<<"\n">>, current_lines))),
                                name, <<>>)
                 ELSE SplitLoop(lines, k + 1, sections, current_section,
                                Append(current_lines, lines[k])))

\* _split_sections
split_sections(text) == SplitLoop(SplitLines(text), 1, <<>>, "header", <<>>)

\* the character classes of the patterns
Letters == LowerLetters \cup UpperLetters
EmailLocalChars == Letters \cup Digits \cup {".", "_", "%", "+", "-"}
EmailDomainChars == Letters \cup Digits \cup {".", "-"}
PhoneChars == Digits \cup Whitespace \cup {"-", "(", ")"}
HandleChars == Letters \cup Digits \cup {"-"}
NonSpace == Chars \ Whitespace
NotNewline == Chars \ {"\n"}

\* EMAIL_RE, PHONE_RE, URL_RE, LINKEDIN_RE and GITHUB_RE of nlp_extractor.py
NLP_EMAIL_RE ==
    <<CharSet(EmailLocalChars, 1, Unbounded), CharSet({"@"}, 1, 1),
      CharSet(EmailDomainChars, 1, Unbounded), CharSet({"."}, 1, 1),
      CharSet(Letters, 2, Unbounded)>>

NLP_PHONE_RE == <<CharSet({"+"}, 0, 1), CharSet(PhoneChars, 7, 15)>>

URL_RE ==
    <<Alt(<<Lit(<<"h", "t", "t", "p">>) \o <<CharSet({"s"}, 0, 1)>>
               \o Lit(<<":", "/", "/">>) \o <<CharSet(NonSpace, 1, Unbounded)>>,
            Lit(<<"w", "w", "w", ".">>) \o <<CharSet(NonSpace, 1, Unbounded)>>>>)>>

LINKEDIN_RE ==
    LitI(<<"l", "i", "n", "k", "e", "d", "i", "n", ".", "c", "o", "m", "/", "i", "n", "/">>)
        \o <<CharSet(HandleChars, 1, Unbounded)>>

GITHUB_RE ==
    LitI(<<"g", "i", "t", "h", "u", "b", ".", "c", "o", "m", "/">>)
        \o <<CharSet(HandleChars, 1, Unbounded)>>

\* lines[:n]
FirstLines(lines, n) == SubSeq(lines, 1, Min(Len(lines), n))

\* the words of s as text.split() gives them, by the positions of their
\* first and last character
WordSpans(s) ==
    LET starts == {i \in 1..Len(s) : ~IsSpace(s[i]) /\ (i = 1 \/ IsSpace(s[i - 1]))}
        stops == {i \in 1..Len(s) : ~IsSpace(s[i]) /\ (i = Len(s) \/ IsSpace(s[i + 1]))}
    IN  [k \in 1..Cardinality(starts) |->
            [start |-> CHOOSE i \in starts : Cardinality({j \in starts : j < i}) = k - 1,
             stop |-> CHOOSE i \in stops : Cardinality({j \in stops : j < i}) = k - 1]]

WordCount(s) ==
    Cardinality({i \in 1..Len(s) : ~IsSpace(s[i]) /\ (i = 1 \/ IsSpace(s[i - 1]))})

\* The entity-recognition stage.  ner.mode is "unavailable" (_get_nlp returns
\* None), "raises" (nlp(text) raises) or "ok"; in mode "ok" the entities are
\* spans of the text: here at most one, the words ner.first to ner.last of
\* the text, labelled ner.label, when the text has that many words.
NoDoc == [none |-> TRUE, ents |-> <<>>]

\* _run_nlp(text)
run_nlp(ner, text) ==
    IF ner.mode # "ok" THEN NoDoc
    ELSE Bind(WordSpans(text),
              LAMBDA words :
                 IF ner.first <= ner.last /\ ner.last <= Len(words)
                 THEN [none |-> FALSE,
                       ents |-> <<[label_ |-> ner.label,
                                   text |-> SubSeq(text, words[ner.first].start,
                                                   words[ner.last].stop)]>>]
                 ELSE [none |-> FALSE, ents |-> <<>>])

\* the first PERSON entity of two to five words, stripped; <<>> without one
RECURSIVE PersonFrom(_, _)
PersonFrom(ents, k) ==
    IF k > Len(ents) THEN <<>>
    ELSE IF ents[k].label_ = "PERSON" /\ WordCount(ents[k].text) >= 2
              /\ WordCount(ents[k].text) <= 5
    THEN Strip(ents[k].text)
    ELSE PersonFrom(ents, k + 1)

HasPerson(ents) ==
    \E k \in DOMAIN ents : /\ ents[k].label_ = "PERSON"
                           /\ WordCount(ents[k].text) >= 2
                           /\ WordCount(ents[k].text) <= 5

\* the fallback loop of _extract_name over lines[:8]
RECURSIVE NameFallback(_, _)
NameFallback(lines, k) ==
    IF k > Len(lines) THEN <<>>
    ELSE Bind(Strip(lines[k]),
              LAMBDA line :
                 IF /\ Len(line) > 3
                    /\ ~Found(Search(NLP_EMAIL_RE, line))
                    /\ ~Found(Search(NLP_PHONE_RE, line))
                    /\ ~Found(Search(URL_RE, line))
                    /\ WordCount(line) <= 5
                    /\ \A i \in 1..Len(line) : line[i] \notin Digits
                 THEN line
                 ELSE NameFallback(lines, k + 1))

\* _extract_name
extract_name(ner, text, lines) ==
    Bind(run_nlp(ner, Join(<<"\n">>, FirstLines(lines, 15))),
         LAMBDA doc :
            IF ~doc.none /\ HasPerson(doc.ents) THEN PersonFrom(doc.ents, 1)
            ELSE NameFallback(FirstLines(lines, 8), 1))

\* _extract_email
extract_email(text) ==
    Bind(Search(NLP_EMAIL_RE, text),
         LAMBDA m : IF Found(m) THEN Strip(Group0(text, m)) ELSE <<>>)

DigitsIn(s) == Cardinality({i \in 1..Len(s) : s[i] \in Digits})

\* sorted(matches, key=len, reverse=True)[0] over the matches numbered in
\* good: the longest, the first of those of equal length
LongestOf(matches, good) ==
    CHOOSE k \in good :
        \A j \in good :
            \/ matches[j].stop - matches[j].start < matches[k].stop - matches[k].start
            \/ (matches[j].stop - matches[j].start = matches[k].stop - matches[k].start
                  /\ k <= j)

\* _extract_phone
extract_phone(text) ==
    Bind(FindAll(NLP_PHONE_RE, text),
         LAMBDA matches :
            Bind({k \in DOMAIN matches :
                     /\ DigitsIn(Group0(text, matches[k])) >= 7
                     /\ DigitsIn(Group0(text, matches[k])) <= 15},
                 LAMBDA good :
                    IF good = {} THEN <<>>
                    ELSE Strip(Group0(text, matches[LongestOf(matches, good)]))))

HttpsPrefix == <<"h", "t", "t", "p", "s", ":", "/", "/">>

extract_linkedin_NoMatchCheck(text) ==
    Bind(Search(LINKEDIN_RE, text),
         LAMBDA m : HttpsPrefix \o (IF Found(m) THEN Group0(text, m) ELSE <<>>))

\* _extract_linkedin and _extract_github
extract_linkedin(text) ==
    Bind(Search(LINKEDIN_RE, text),
         LAMBDA m : IF Found(m) THEN HttpsPrefix \o Group0(text, m) ELSE <<>>)

extract_github(text) ==
    Bind(Search(GITHUB_RE, text),
         LAMBDA m : IF Found(m) THEN HttpsPrefix \o Group0(text, m) ELSE <<>>)

\* [A-Z][a-z]+(?: [A-Z][a-z]+)*
CapitalisedWords ==
    <<CharSet(UpperLetters, 1, 1), CharSet(LowerLetters, 1, Unbounded),
      Group(<<CharSet({" "}, 1, 1), CharSet(UpperLetters, 1, 1),
              CharSet(LowerLetters, 1, Unbounded)>>, 0, Unbounded)>>

\* location_re of _extract_address
LOCATION_RE ==
    CapitalisedWords \o <<CharSet({","}, 1, 1), AnyWs>> \o CapitalisedWords
        \o <<Group(<<CharSet({","}, 1, 1), AnyWs, CharSet(UpperLetters, 2, Unbounded)>>,
                   0, 1)>>

\* _extract_address
extract_address(text, sections) ==
    Bind(Get(sections, "header") \o <<"\n">> \o Get(sections, "contact"),
         LAMBDA header :
            Bind(Search(LOCATION_RE, header),
                 LAMBDA m : IF Found(m) THEN Strip(Group0(header, m)) ELSE <<>>))

\* _extract_summary
extract_summary(sections) == Strip(Get(sections, "summary"))

\* SKILLS_DICT: the keywords of config.SKILLS_KEYWORDS
SKILLS_DICT ==
    {<<"p", "y", "t", "h", "o", "n">>,
     <<"j", "a", "v", "a">>,
     <<"j", "a", "v", "a", "s", "c", "r", "i", "p", "t">>,
     <<"t", "y", "p", "e", "s", "c", "r", "i", "p", "t">>,
     <<"c", "+", "+">>,
     <<"c", "#">>,
     <<"p", "h", "p">>,
     <<"r", "u", "b", "y">>,
     <<"g", "o">>,
     <<"s", "w", "i", "f", "t">>,
     <<"k", "o", "t", "l", "i", "n">>,
     <<"r">>,
     <<"s", "c", "a", "l", "a">>,
     <<"m", "a", "t", "l", "a", "b">>,
     <<"h", "t", "m", "l">>,
     <<"c", "s", "s">>,
     <<"r", "e", "a", "c", "t">>,
     <<"a", "n", "g", "u", "l", "a", "r">>,
     <<"v", "u", "e">>,
     <<"n", "o", "d", "e", ".", "j", "s">>,
     <<"d", "j", "a", "n", "g", "o">>,
     <<"f", "l", "a", "s", "k">>,
     <<"f", "a", "s", "t", "a", "p", "i">>,
     <<"s", "p", "r", "i", "n", "g">>,
     <<"l", "a", "r", "a", "v", "e", "l">>,
     <<"e", "x", "p", "r", "e", "s", "s">>,
     <<"s", "q", "l">>,
     <<"m", "y", "s", "q", "l">>,
     <<"p", "o", "s", "t", "g", "r", "e", "s", "q", "l">>,
     <<"m", "o", "n", "g", "o", "d", "b">>,
     <<"r", "e", "d", "i", "s">>,
     <<"e", "l", "a", "s", "t", "i", "c", "s", "e", "a", "r", "c", "h">>,
     <<"p", "a", "n", "d", "a", "s">>,
     <<"n", "u", "m", "p", "y">>,
     <<"t", "e", "n", "s", "o", "r", "f", "l", "o", "w">>,
     <<"p", "y", "t", "o", "r", "c", "h">>,
     <<"s", "c", "i", "k", "i", "t", "-", "l", "e", "a", "r", "n">>,
     <<"p", "o", "w", "e", "r", " ", "b", "i">>,
     <<"t", "a", "b", "l", "e", "a", "u">>,
     <<"e", "x", "c", "e", "l">>,
     <<"d", "a", "t", "a", " ", "a", "n", "a", "l", "y", "s", "i", "s">>,
     <<"m", "a", "c", "h", "i", "n", "e", " ", "l", "e", "a", "r", "n", "i", "n", "g">>,
     <<"a", "w", "s">>,
     <<"a", "z", "u", "r", "e">>,
     <<"g", "c", "p">>,
     <<"d", "o", "c", "k", "e", "r">>,
     <<"k", "u", "b", "e", "r", "n", "e", "t", "e", "s">>,
     <<"c", "i", "/", "c", "d">>,
     <<"g", "i", "t">>,
     <<"l", "i", "n", "u", "x">>,
     <<"b", "a", "s", "h">>,
     <<"t", "e", "r", "r", "a", "f", "o", "r", "m">>,
     <<"a", "n", "s", "i", "b", "l", "e">>,
     <<"l", "e", "a", "d", "e", "r", "s", "h", "i", "p">>,
     <<"c", "o", "m", "m", "u", "n", "i", "c", "a", "t", "i", "o", "n">>,
     <<"p", "r", "o", "j", "e", "c", "t", " ", "m", "a", "n", "a", "g", "e", "m", "e", "n", "t">>,
     <<"t", "e", "a", "m", "w", "o", "r", "k">>,
     <<"p", "r", "o", "b", "l", "e", "m", " ", "s", "o", "l", "v", "i", "n", "g">>,
     <<"c", "r", "i", "t", "i", "c", "a", "l", " ", "t", "h", "i", "n", "k", "i", "n", "g">>,
     <<"t", "i", "m", "e", " ", "m", "a", "n", "a", "g", "e", "m", "e", "n", "t">>}

\* str.title()
Title(str) ==
    [i \in 1..Len(str) |->
        IF i = 1 \/ str[i - 1] \notin Letters THEN UpperChar(str[i]) ELSE LowerChar(str[i])]

\* re.search(r"\b" + re.escape(skill) + r"\b", text) is not None
HasWord(skill, text) ==
    \E i \in 1..(Len(text) - Len(skill) + 1) :
        /\ SubSeq(text, i, i + Len(skill) - 1) = skill
        /\ AtWordBoundary(text, i)
        /\ AtWordBoundary(text, i + Len(skill))

\* the ordering of str: by the code points of the first characters that differ
AsciiOrder ==
    <<"\t", "\n", " ", "#", "%", "(", ")", "+", ",", "-", ".", "/">>
        \o <<"0", "1", "2", "3", "4", "5", "6", "7", "8", "9", ":", "@">>
        \o UpperSeq \o <<"_">> \o LowerSeq \o <<"|">>

Ord(c) == CHOOSE i \in DOMAIN AsciiOrder : AsciiOrder[i] = c

StrLess(x, y) ==
    \E i \in 1..(Len(y)) :
        /\ \A k \in 1..(i - 1) : k <= Len(x) /\ x[k] = y[k]
        /\ \/ i = Len(x) + 1
           \/ i <= Len(x) /\ Ord(x[i]) < Ord(y[i])

\* sorted(set)
SortedStrings(set) ==
    [k \in 1..Cardinality(set) |->
        CHOOSE x \in set : Cardinality({y \in set : StrLess(y, x)}) = k - 1]

\* _extract_skills
extract_skills(text) ==
    Bind(Lower(text),
         LAMBDA text_lower :
            SortedStrings({Title(skill) : skill \in {k \in SKILLS_DICT : HasWord(k, text_lower)}}))

\* \b(19|20)\d{2}\b
YEAR_RE ==
    <<WordBoundary, Alt(<<Lit(<<"1", "9">>), Lit(<<"2", "0">>)>>),
      CharSet(Digits, 2, 2), WordBoundary>>

\* year_re.findall(text)[-1], "" without a match: findall gives the text of
\* the group (19|20) of each match
LastYear(text) ==
    Bind(FindAll(YEAR_RE, text),
         LAMBDA years :
            IF years = <<>> THEN <<>>
            ELSE SubSeq(text, years[Len(years)].start, years[Len(years)].start + 1))

OptDot == CharSet({"."}, 0, 1)

\* degree_re of _extract_education
DEGREE_RE ==
    <<Alt(<<LitI(<<"b", "a", "c", "h", "e", "l", "o", "r">>),
            LitI(<<"m", "a", "s", "t", "e", "r">>),
            LitI(<<"p", "h", "d">>),
            LitI(<<"d", "o", "c", "t", "o", "r", "a", "t", "e">>),
            LitI(<<"a", "s", "s", "o", "c", "i", "a", "t", "e">>),
            LitI(<<"d", "i", "p", "l", "o", "m", "a">>),
            LitI(<<"c", "e", "r", "t", "i", "f", "i", "c", "a", "t", "e">>),
            LitI(<<"b">>) \o <<OptDot>> \o LitI(<<"s", "c">>),
            LitI(<<"m">>) \o <<OptDot>> \o LitI(<<"s", "c">>),
            LitI(<<"m">>) \o <<OptDot>> \o LitI(<<"a">>),
            LitI(<<"b">>) \o <<OptDot>> \o LitI(<<"a">>),
            LitI(<<"b">>) \o <<OptDot>> \o LitI(<<"e", "n", "g">>),
            LitI(<<"m">>) \o <<OptDot>> \o LitI(<<"e", "n", "g">>),
            LitI(<<"m", "b", "a">>)>>)>>

\* [l.strip() for l in block.splitlines() if l.strip()]
StrippedLines(block) ==
    NonEmpty([k \in DOMAIN SplitLines(block) |-> Strip(SplitLines(block)[k])])

\* s without the characters at the positions in cuts, split there
RECURSIVE CutAt(_, _, _)
CutAt(s, from, cuts) ==
    IF cuts = {} THEN <<SubSeq(s, from, Len(s))>>
    ELSE LET c == CHOOSE i \in cuts : \A k \in cuts : i <= k
         IN  <<SubSeq(s, from, c - 1)>> \o CutAt(s, c + 1, cuts \ {c})

\* re.split(r"\n(?=\S)", text)
SplitBeforeText(text) ==
    CutAt(text, 1, {i \in 1..(Len(text) - 1) : text[i] = "\n" /\ ~IsSpace(text[i + 1])})

\* re.split(r"\n{2,}", text)
SplitOnBlankLines(text) == SplitFrom(<<CharSet({"\n"}, 2, Unbounded)>>, text, 1)

\* the entry _extract_education makes of a block
EducationEntry(block) ==
    [institution |-> IF StrippedLines(block) = <<>> THEN <<>> ELSE StrippedLines(block)[1],
     degree |-> Bind(Search(DEGREE_RE, block),
                     LAMBDA m : IF Found(m) THEN Strip(Group0(block, m)) ELSE <<>>),
     field |-> <<>>,
     year |-> LastYear(block),
     raw |-> block]

\* the entries made of the blocks that are not empty once stripped
RECURSIVE EntriesOf(_, _, _)
EntriesOf(kind, blocks, k) ==
    IF k > Len(blocks) THEN <<>>
    ELSE Bind(Strip(blocks[k]),
              LAMBDA block :
                 (IF block = <<>> \/ Len(block) < kind.min_len THEN <<>>
                  ELSE <<CASE kind.name = "education" -> EducationEntry(block)
                           [] kind.name = "certifications" ->
                                [name |-> block, issuer |-> <<>>, year |-> LastYear(block)]
                           [] kind.name = "work_experience" ->
                                [company |-> IF Len(StrippedLines(block)) > 1
                                             THEN StrippedLines(block)[2] ELSE <<>>,
                                 role |-> StrippedLines(block)[1],
                                 dates |-> kind.dates[block],
                                 description |-> block,
                                 raw |-> block]
                           [] kind.name = "projects" ->
                                [name |-> StrippedLines(block)[1],
                                 description |-> block,
                                 technologies |-> kind.technologies[block]]>>)
                    \o EntriesOf(kind, blocks, k + 1))

\* _extract_education: at most 6 entries
extract_education(text) ==
    IF Strip(text) = <<>> THEN <<>>
    ELSE FirstLines(EntriesOf([name |-> "education", min_len |-> 0],
                              SplitBeforeText(text), 1), 6)

\* _extract_certifications: one entry per line of 5 characters or more, at
\* most 10
extract_certifications(text) ==
    IF Strip(text) = <<>> THEN <<>>
    ELSE FirstLines(EntriesOf([name |-> "certifications", min_len |-> 5],
                              SplitLines(text), 1), 10)

\* date_re of _extract_experience (the dash is "-" here)
DATE_RE ==
    <<Alt(<<<<Alt(<<LitI(<<"j", "a", "n">>), LitI(<<"f", "e", "b">>), LitI(<<"m", "a",
                "r">>), LitI(<<"a", "p", "r">>), LitI(<<"m", "a",
                "y">>), LitI(<<"j", "u", "n">>), LitI(<<"j", "u",
                "l">>), LitI(<<"a", "u", "g">>), LitI(<<"s", "e",
                "p">>), LitI(<<"o", "c", "t">>), LitI(<<"n", "o",
                "v">>), LitI(<<"d", "e", "c">>)>>),
              CharSet(Letters, 0, Unbounded), OptDot, CharSet(Whitespace, 1, Unbounded),
              CharSet(Digits, 4, 4)>>,
            <<CharSet(Digits, 4, 4), AnyWs, CharSet({"-"}, 1, 1), AnyWs,
              Alt(<<<<CharSet(Digits, 4, 4)>>,
                    LitI(<<"p", "r", "e", "s", "e", "n", "t">>),
                    LitI(<<"c", "u", "r", "r", "e", "n", "t">>),
                    LitI(<<"n", "o", "w">>)>>)>>>>)>>

\* " | ".join(date_re.findall(block)): findall gives the text of the month
\* group of each match, "" for a match of the second alternative
DatesOf(block) ==
    Bind(FindAll(DATE_RE, block),
         LAMBDA dates :
            Join(<<" ", "|", " ">>,
                 [k \in DOMAIN dates |->
                     IF block[dates[k].start] \in Digits THEN <<>>
                     ELSE SubSeq(block, dates[k].start, dates[k].start + 2)]))

\* _extract_experience: one entry per block of 15 characters or more, at
\* most 8
extract_experience(text) ==
    IF Strip(text) = <<>> THEN <<>>
    ELSE Bind(SplitOnBlankLines(text),
              LAMBDA blocks :
                 FirstLines(EntriesOf([name |-> "work_experience", min_len |-> 15,
                                       dates |-> [b \in {Strip(blocks[k]) : k \in DOMAIN blocks}
                                                    |-> DatesOf(b)]],
                                      blocks, 1), 8))

\* tech_re of _extract_projects
TECH_RE ==
    LitI(<<"t", "e", "c", "h">>)
        \o <<Group(<<Alt(<<LitI(<<"n", "o", "l", "o", "g", "i", "e", "s">>),
                            LitI(<<"n", "o", "l", "o", "g", "y">>),
                            LitI(<<"s", "t", "a", "c", "k">>)>>)>>, 0, 1),
             CharSet({":", "-"}, 1, 1), AnyWs, GroupStart,
             CharSet(NotNewline, 1, Unbounded)>>

TechnologiesOf(block) ==
    Bind(Search(TECH_RE, block),
         LAMBDA m : IF Found(m) THEN Strip(Group1(block, m)) ELSE <<>>)

\* _extract_projects: one entry per block of 10 characters or more, at most 6
extract_projects(text) ==
    IF Strip(text) = <<>> THEN <<>>
    ELSE Bind(SplitOnBlankLines(text),
              LAMBDA blocks :
                 FirstLines(EntriesOf([name |-> "projects", min_len |-> 10,
                                       technologies |->
                                          [b \in {Strip(blocks[k]) : k \in DOMAIN blocks}
                                             |-> TechnologiesOf(b)]],
                                      blocks, 1), 6))

\* extract_profile(raw_text), the entity-recognition stage behaving as ner
extract_profile(ner, raw_text) ==
    Bind(normalize_text(raw_text),
         LAMBDA text :
            Bind(split_sections(text),
                 LAMBDA sections :
                    [full_name |-> extract_name(ner, text, SplitLines(text)),
                     email |-> extract_email(text),
                     phone |-> extract_phone(text),
                     address |-> extract_address(text, sections),
                     linkedin |-> extract_linkedin(text),
                     github |-> extract_github(text),
                     summary |-> extract_summary(sections),
                     education |-> extract_education(Get(sections, "education")),
                     skills |-> extract_skills(Get(sections, "skills") \o <<" ">> \o text),
                     certifications |->
                        extract_certifications(Get(sections, "certifications")),
                     work_experience |->
                        extract_experience(Get(sections, "work_experience")),
                     projects |-> extract_projects(Get(sections, "projects")),
                     raw_text |-> raw_text]))

(***************************************************************************)
(* The local skill-overlap matcher (the variant of matcher.py that scores  *)
(* without the ranking service).                                           *)
(***************************************************************************)
MaxYears == 5

SkillPool == {<<"a">>, <<"A">>, <<"b">>, <<"e">>}

\* skills compared case-insensitively
FoldSkills(skills) == {Lower(k) : k \in skills}

\* +10 from five years of experience, +5 from two
experience_bonus(years) == IF years >= 5 THEN 10 ELSE IF years >= 2 THEN 5 ELSE 0

\* n / d rounded to the nearest integer, a half to the even neighbour
RoundNearest(n, d) ==
    IF 2 * (n % d) < d THEN n \div d
    ELSE IF 2 * (n % d) > d THEN (n \div d) + 1
    ELSE IF (n \div d) % 2 = 0 THEN n \div d ELSE (n \div d) + 1

Clamp(x, lo, hi) == IF x < lo THEN lo ELSE IF x > hi THEN hi ELSE x

local_match_score_NoClamp(pskills, jskills, years) ==
    LET inter == Cardinality(FoldSkills(pskills) \cap FoldSkills(jskills))
        union == Cardinality(FoldSkills(pskills) \cup FoldSkills(jskills))
    IN  IF union = 0 THEN experience_bonus(years)
        ELSE RoundNearest(100 * inter + experience_bonus(years) * union, union)

\* intersection size / union size scaled to 0-100, plus the experience
\* bonus, clamped to [0,100], rounded; no skills on either side overlap in
\* nothing
local_match_score(pskills, jskills, years) ==
    LET inter == Cardinality(FoldSkills(pskills) \cap FoldSkills(jskills))
        union == Cardinality(FoldSkills(pskills) \cup FoldSkills(jskills))
    IN  IF union = 0 THEN Clamp(experience_bonus(years), 0, 100)
        ELSE Clamp(RoundNearest(100 * inter + experience_bonus(years) * union, union),
                   0, 100)

LocalIdle ==
    /\ lmSkills = {}
    /\ lmYears = 0
    /\ lmJobSkills = {}
    /\ lmPc = "idle"
    /\ lmScore = 0

LocalMatch ==
    /\ lmPc = "called"
    /\ lmScore' = local_match_score(lmSkills, lmJobSkills, lmYears)
    /\ lmPc' = "done"
    /\ UNCHANGED <<lmSkills, lmYears, lmJobSkills>>

(***************************************************************************)
(* modules/confidence_scorer.py.  Scores are in hundredths (0.88 is 88),   *)
(* the overall score in thousandths.                                       *)
(***************************************************************************)
\* str.isupper() on one character
IsUpper(c) == c \in UpperLetters

\* regex [a-zA-Z] on one character
IsAlpha(c) == c \in LowerLetters \cup UpperLetters

\* regex \d on one character
IsDigit(c) == c \in Digits

\* [a-zA-Z0-9._%+\-]
EmailLocalChar(c) == IsAlpha(c) \/ IsDigit(c) \/ c \in {".", "_", "%", "+", "-"}

\* [a-zA-Z0-9.\-]
EmailDomainChar(c) == IsAlpha(c) \/ IsDigit(c) \/ c \in {".", "-"}

\* [\d\s\-\(\)]
PhoneChar(c) == IsDigit(c) \/ IsSpace(c) \/ c \in {"-", "(", ")"}

\* the whole of v is  [local]+ @ [domain]+ \. [a-zA-Z]{2,}
EmailBody(v) ==
    \E i \in 2..Len(v) : \E j \in (i + 2)..(Len(v) - 2) :
        /\ v[i] = "@"
        /\ v[j] = "."
        /\ \A k \in 1..(i - 1) : EmailLocalChar(v[k])
        /\ \A k \in (i + 1)..(j - 1) : EmailDomainChar(v[k])
        /\ \A k \in (j + 1)..Len(v) : IsAlpha(v[k])

\* the whole of v is  \+? [\d\s\-\(\)]{7,20}
PhoneBody(v) ==
    \E start \in 1..2 :
        /\ start = 2 => (Len(v) >= 1 /\ v[1] = "+")
        /\ Len(v) - start + 1 >= 7
        /\ Len(v) - start + 1 <= 20
        /\ \A k \in start..Len(v) : PhoneChar(v[k])

\* v without a final newline, if it has one: $ also matches before it
BeforeFinalNewline(v) ==
    IF v # <<>> /\ v[Len(v)] = "\n" THEN SubSeq(v, 1, Len(v) - 1) ELSE v

\* EMAIL_RE.match(v) is not None
EMAIL_RE_match(v) == EmailBody(v) \/ EmailBody(BeforeFinalNewline(v))

\* PHONE_RE.match(v) is not None
PHONE_RE_match(v) == PhoneBody(v) \/ PhoneBody(BeforeFinalNewline(v))

\* str.split(): the maximal runs of non-whitespace characters
RECURSIVE Split(_)
Split(s) ==
    IF s = <<>> THEN <<>>
    ELSE IF IsSpace(Head(s)) THEN Split(Tail(s))
    ELSE LET stops == {i \in 1..Len(s) : IsSpace(s[i])}
             stop == IF stops = {} THEN Len(s) + 1
                     ELSE CHOOSE i \in stops : \A k \in stops : i <= k
         IN  <<SubSeq(s, 1, stop - 1)>> \o Split(SubSeq(s, stop, Len(s)))

\* len(re.sub(r"\D", "", value))
DigitCount(s) == Cardinality({i \in 1..Len(s) : IsDigit(s[i])})

score_name(value) ==
    IF value = <<>> \/ Len(Strip(value)) < 2 THEN 0
    ELSE LET parts == Split(value)
         IN  IF Len(parts) >= 2 /\ Len(parts) <= 5
                   /\ \A i \in 1..Len(parts) : IsUpper(parts[i][1])
             THEN 88
             ELSE IF Len(parts) = 1 /\ IsUpper(value[1]) THEN 55
             ELSE 35

score_email_NoStrip(value) ==
    IF value = <<>> THEN 0
    ELSE IF EMAIL_RE_match(value) THEN 100 ELSE 40

score_email(value) ==
    IF value = <<>> THEN 0
    ELSE IF EMAIL_RE_match(Strip(value)) THEN 100 ELSE 40

score_phone_NoDigitCheck(value) ==
    IF value = <<>> THEN 0
    ELSE IF PHONE_RE_match(value) THEN 100
    ELSE IF DigitCount(value) >= 7 /\ DigitCount(value) <= 15 THEN 72
    ELSE 25

\* _score_phone
score_phone(value) ==
    IF value = <<>> THEN 0
    ELSE IF DigitCount(value) >= 7 /\ DigitCount(value) <= 15
              /\ PHONE_RE_match(Strip(value))
    THEN 100
    ELSE IF DigitCount(value) >= 7 /\ DigitCount(value) <= 15 THEN 72
    ELSE 25

score_url(value) ==
    IF value = <<>> THEN 0
    ELSE IF Prefix(value, 4) = <<"h", "t", "t", "p">> THEN 95
    ELSE 50

score_text_field(value, min_len) ==
    IF value = <<>> \/ Len(Strip(value)) < min_len THEN 0
    ELSE IF Len(Strip(value)) >= 100 THEN 80
    ELSE IF Len(Strip(value)) >= 30 THEN 65
    ELSE 45

score_list_field(value, min_items) ==
    IF value = <<>> \/ Len(value) < min_items THEN 0
    ELSE IF Len(value) >= 5 THEN 85
    ELSE IF Len(value) >= 2 THEN 70
    ELSE 50

\* the weight table of _compute_overall, doubled
Weights2 ==
    [full_name |-> 6, email |-> 6, phone |-> 4, skills |-> 5, work_experience |-> 5,
     education |-> 4, address |-> 2, summary |-> 2, certifications |-> 2,
     projects |-> 2, linkedin |-> 1, github |-> 1]

\* round(n / d, 0) for n >= 0 and d > 0: the nearest integer; where n / d lies
\* halfway between two integers the floating-point quotient may fall on
\* either side, and either neighbour may be returned
RoundChoices(n, d) ==
    IF 2 * (n % d) < d THEN {n \div d}
    ELSE IF 2 * (n % d) > d THEN {(n \div d) + 1}
    ELSE {n \div d, (n \div d) + 1}

compute_overall_Unweighted(scores) ==
    LET fields == DOMAIN Weights2 \cap DOMAIN scores
    IN  IF fields = {} THEN {0}
        ELSE RoundChoices(10 * SumOver(fields, scores), Cardinality(fields))

\* _compute_overall: the values round(total_score / total_weight, 3) may take
compute_overall(scores) ==
    LET fields == DOMAIN Weights2 \cap DOMAIN scores
        total_score2 == SumOver(fields, [f \in fields |-> scores[f] * Weights2[f]])
        total_weight2 == SumOver(fields, Weights2)
    IN  IF total_weight2 > 0 THEN RoundChoices(10 * total_score2, total_weight2)
        ELSE {0}

\* profile.get(key, default)
ProfileGet(profile, key) == IF key \in DOMAIN profile THEN profile[key] ELSE <<>>

\* lines 27-38 of score_profile
score_fields(profile) ==
    [full_name |-> score_name(ProfileGet(profile, "full_name")),
     email |-> score_email(ProfileGet(profile, "email")),
     phone |-> score_phone(ProfileGet(profile, "phone")),
     address |-> score_text_field(ProfileGet(profile, "address"), 5),
     linkedin |-> score_url(ProfileGet(profile, "linkedin")),
     github |-> score_url(ProfileGet(profile, "github")),
     summary |-> score_text_field(ProfileGet(profile, "summary"), 30),
     education |-> score_list_field(ProfileGet(profile, "education"), 1),
     skills |-> score_list_field(ProfileGet(profile, "skills"), 3),
     certifications |-> score_list_field(ProfileGet(profile, "certifications"), 1),
     work_experience |-> score_list_field(ProfileGet(profile, "work_experience"), 1),
     projects |-> score_list_field(ProfileGet(profile, "projects"), 1)]

\* the dicts score_profile may return
score_profile(profile) ==
    Bind(score_fields(profile), LAMBDA scores :
        {[f \in DOMAIN scores \cup {"overall"} |->
             IF f = "overall" THEN o ELSE scores[f]] :
           o \in compute_overall(scores)})

\* the profiles scored: strings of n equal characters, lists of n entries
Rep(c, n) == [i \in 1..n |-> c]

FieldOrder ==
    <<"full_name", "email", "phone", "address", "linkedin", "github", "summary",
      "education", "skills", "certifications", "work_experience", "projects">>

ValidEmail == <<"a", "@", "b", ".", "a", "b">>

NameValues ==
    {<<>>, <<"A">>, <<"A", "b", " ", "B", "a">>, <<"a", "b", " ", "B", "a">>,
     <<"A", "b">>, <<"a", "b">>, <<" ", "A", "b">>,
     <<"A", " ", "B", " ", "E", " ", "A", " ", "B", " ", "E">>}

EmailValues == {<<>>, ValidEmail, <<"a", "b">>, <<" ">> \o ValidEmail, <<" ", " ">>}

PhoneValues ==
    {<<>>, <<"+">> \o Rep("1", 7), Rep("0", 7) \o <<"x">>, <<"0", "1">>,
     <<"(", "0", "1", ")", " ">> \o Rep("1", 5) \o <<"\n">>, Rep("1", 16)}

UrlValues == {<<>>, <<"h", "t", "t", "p", ":", "a">>, <<"a", ".", "b">>}

AddressValues ==
    {<<>>, Rep("a", 4), <<" ">> \o Rep("a", 5), Rep("a", 30), Rep("a", 100), Rep(" ", 6)}

SummaryValues ==
    {<<>>, Rep("a", 29), Rep("a", 30) \o <<"\n">>, Rep("a", 99) \o <<" ">>, Rep("a", 100)}

ListValues == {Rep("entry", n) : n \in {0, 1, 2, 4, 5}}

SkillValues == {Rep("skill", n) : n \in {0, 2, 3, 5}}

FieldValues(field) ==
    CASE field = "full_name" -> NameValues
      [] field = "email" -> EmailValues
      [] field = "phone" -> PhoneValues
      [] field \in {"linkedin", "github"} -> UrlValues
      [] field = "address" -> AddressValues
      [] field = "summary" -> SummaryValues
      [] field = "skills" -> SkillValues
      [] OTHER -> ListValues

\* the profile of the tests' _make_profile()
BlankProfile == [i \in {FieldOrder[k] : k \in DOMAIN FieldOrder} |-> <<>>]

\* a profile with every field well-formed
FullProfile ==
    [full_name |-> <<"A", "b", " ", "B", "a">>, email |-> ValidEmail,
     phone |-> <<"+">> \o Rep("1", 7), address |-> Rep("a", 30),
     linkedin |-> <<"h", "t", "t", "p", ":", "a">>,
     github |-> <<"h", "t", "t", "p", ":", "a">>, summary |-> Rep("a", 100),
     education |-> Rep("entry", 2), skills |-> Rep("skill", 5),
     certifications |-> Rep("entry", 1), work_experience |-> Rep("entry", 5),
     projects |-> Rep("entry", 2)]

\* a profile with a single key
SparseProfile == [email |-> <<"a", "b">>]

BaseProfiles == {BlankProfile, FullProfile, SparseProfile}

MaxEdits == 2

ScoreIdle ==
    /\ spProfile = BlankProfile
    /\ spLast = 0
    /\ spEdits = 0
    /\ spPc = "idle"
    /\ spScores = <<>>

\* the caller puts the profile together: one more field is set
SetField(k, value) ==
    /\ spPc = "building"
    /\ spEdits < MaxEdits
    /\ k > spLast
    /\ spProfile' = [f \in DOMAIN spProfile \cup {FieldOrder[k]} |->
                        IF f = FieldOrder[k] THEN value ELSE spProfile[f]]
    /\ spLast' = k
    /\ spEdits' = spEdits + 1
    /\ UNCHANGED <<spPc, spScores>>

\* score_profile(profile)
ScoreProfile ==
    /\ spPc = "building"
    /\ spScores' \in score_profile(spProfile)
    /\ spPc' = "scored"
    /\ UNCHANGED <<spProfile, spLast, spEdits>>

MaxPad == 1

PadAlphabet == {" ", "a", "@", "."}

PadsUpTo(n) == UNION {[1..k -> PadAlphabet] : k \in 0..n}

EmailCores ==
    {<<>>, ValidEmail, <<"a", "_", "1", "@", "b", "-", "1", ".", "a", "b">>,
     <<"a", "@", "b", ".", "a">>, <<"a", "@", "b", ".", "a", "1">>, <<"a", "@", "b">>,
     <<"a", "b">>, <<"@", "b", ".", "a", "b">>, <<"a", "@", ".", "a", "b">>,
     <<"a", "@", "b", ".", ".", "a", "b">>, <<"a", " ", "b", "@", "b", ".", "a", "b">>,
     <<"a", "@", "b", "_", "b", ".", "a", "b">>, <<"a", "@", "@", "b", ".", "a", "b">>,
     <<"a", "@", "b", ".", "a", "b", "\n">>}

EmailIdle == emValue = <<>> /\ emPc = "idle" /\ emScore = 0

\* _score_email(value)
ScoreEmail ==
    /\ emPc = "called"
    /\ emScore' = score_email(emValue)
    /\ emPc' = "done"
    /\ UNCHANGED emValue

\* the texts extracted from: a resume, a contact block or nothing, followed
\* by up to MaxParts more pieces
MaxParts == 1

SeedTexts ==
    {<<>>,
     <<"A", "b", " ", "B", "a", "\n", "\n", "S", "k", "i", "l", "l", "s",
       "\n", "\n", "g", "o", " ", "s", "q", "l", "\n", "\n", "E", "d", "u",
       "c", "a", "t", "i", "o", "n", "\n", "\n", "M", "I", "T", " ", "B", "S",
       "c", " ", "2", "0", "1", "9">>,
     <<"N", "a", "i", "r", "o", "b", "i", ",", " ", "K", "e", "n", "y", "a",
       "\n", "+", "1", " ", "5", "5", "5", " ", "1", "2", "3", " ", "4", "5",
       "6", "7">>}

PartPool ==
    {<<"\n">>, <<" ">>, <<"a", "@", "b", ".", "c", "o">>, <<"A", "b", " ", "B", "a">>,
     <<"\n", "\n", "P", "r", "o", "j", "e", "c", "t", "s", "\n", "\n">>,
     <<"1", "2", "3", "4", "5", "6", "7">>}

RECURSIVE Concat(_)
Concat(parts) == IF parts = <<>> THEN <<>> ELSE Head(parts) \o Concat(Tail(parts))

NerOff(mode) == [mode |-> mode, label |-> "", first |-> 0, last |-> 0]
NerEntity(label, first, last) ==
    [mode |-> "ok", label |-> label, first |-> first, last |-> last]

NerChoices ==
    {NerOff("unavailable"), NerOff("raises"), NerEntity("PERSON", 1, 2),
     NerEntity("ORG", 1, 2), NerEntity("PERSON", 2, 2)}

ExtractIdle ==
    /\ exText = <<>>
    /\ exNer = NerOff("unavailable")
    /\ exPc = "idle"
    /\ exProfile = <<>>
    /\ exScores = <<>>

\* extract_profile(raw_text)
ExtractProfile ==
    /\ exPc = "called"
    /\ exProfile' = extract_profile(exNer, exText)
    /\ exPc' = "extracted"
    /\ UNCHANGED <<exText, exNer, exScores>>

\* score_profile(profile) on the profile extracted
ScoreExtracted ==
    /\ exPc = "extracted"
    /\ exScores' \in score_profile(exProfile)
    /\ exPc' = "scored"
    /\ UNCHANGED <<exText, exNer, exProfile>>

NoJob == [none |-> TRUE]
NoCall == [op |-> "init", job |-> NoJob, ret |-> FALSE, raised |-> FALSE,
           failed |-> FALSE, stale |-> FALSE]

SetSelf(s) ==
    /\ corpus' = s.corpus
    /\ hashes' = s.hashes
    /\ vectorizer' = s.vectorizer
    /\ matrix' = s.matrix
    /\ dirty' = s.dirty

IsDuplicate(job) ==
    \E d \in {is_duplicate(Self, job)} :
        /\ SetSelf(d.self)
        /\ call' = [op |-> "is_duplicate", job |-> job, ret |-> d.ret,
                    raised |-> FALSE, failed |-> d.failed, stale |-> d.stale]

AddJob(job) ==
    \E a \in {add_job(Self, job)} :
        /\ Len(a.self.corpus) <= MaxCorpus
        /\ SetSelf(a.self)
        /\ call' = [op |-> "add_job", job |-> job, ret |-> a.ret,
                    raised |-> a.raised, failed |-> a.check.failed,
                    stale |-> a.check.stale]

LoadExistingHashes(hs) ==
    /\ \E s \in {load_existing_hashes(Self, hs)} : SetSelf(s)
    /\ call' = [NoCall EXCEPT !.op = "load_existing_hashes"]

LoadExistingJobs(jobs) ==
    \E l \in {load_existing_jobs(Self, jobs)} :
        /\ Len(l.self.corpus) <= MaxCorpus
        /\ SetSelf(l.self)
        /\ call' = [op |-> "load_existing_jobs", job |-> NoJob, jobs |-> jobs,
                    ret |-> FALSE, raised |-> l.raised, failed |-> FALSE,
                    stale |-> FALSE]

DedupIdle ==
    /\ corpus = NewDeduplicator.corpus
    /\ hashes = NewDeduplicator.hashes
    /\ vectorizer = NewDeduplicator.vectorizer
    /\ matrix = NewDeduplicator.matrix
    /\ dirty = NewDeduplicator.dirty
    /\ call = NoCall

SectionsIdle ==
    /\ ssLines = <<>>
    /\ ssPc = "idle"
    /\ ssSections = <<>>

LabelIdle ==
    /\ lbScores = <<0, 0>>
    /\ lbPc = "idle"
    /\ lbLabels = <<>>

ParserIdle ==
    /\ prFile = [magic |-> FALSE, readable |-> FALSE, pages |-> <<>>]
    /\ prNlp = [mode |-> "unavailable", ents |-> <<>>]
    /\ prPc = "idle"
    /\ prProfile = [name |-> <<>>]

ServerIdle ==
    /\ svBoot = "init"
    /\ svRows = <<>>
    /\ svLock = "none"
    /\ svIndex = <<>>
    /\ svBusy = <<>>
    /\ svThread = <<>>
    /\ svRuns = 0
    /\ svPosts = 0
    /\ svLog = {}

ClassifierIdle ==
    /\ clModel = "absent"
    /\ clInput = <<>>
    /\ clReads = 0
    /\ clCalls = 0
    /\ clLast = [op |-> "init"]

PhoneCores ==
    {<<>>, <<"+">> \o Rep("1", 7), Rep("1", 7), Rep("1", 6), Rep("-", 7),
     Rep("1", 15), Rep("1", 16), <<"+">> \o Rep("1", 20), Rep("1", 21),
     <<"(", "0", "1", ")", " ">> \o Rep("1", 5), Rep("0", 7) \o <<"x">>,
     <<"+", "+">> \o Rep("1", 7), Rep("1", 7) \o <<"\n">>,
     Rep("1", 7) \o <<"x">> \o Rep("1", 9), <<"0", "1">>}

PhonePadAlphabet == {" ", "1", "+", "x"}

PhonePadsUpTo(n) == UNION {[1..k -> PhonePadAlphabet] : k \in 0..n}

PhoneIdle == phValue = <<>> /\ phPc = "idle" /\ phScore = 0

\* _score_phone(value)
ScorePhone ==
    /\ phPc = "called"
    /\ phScore' = score_phone(phValue)
    /\ phPc' = "done"
    /\ UNCHANGED phValue

AtomicIdle == atAdded = 0

(***************************************************************************)
(* Specifications: one per component, the other components at rest         *)
(***************************************************************************)
IdleExcept(component) ==
    /\ IF component \in {"dedup", "atomic"} THEN TRUE ELSE DedupIdle
    /\ IF component = "hash" THEN TRUE ELSE HashIdle
    /\ IF component = "match" THEN TRUE ELSE MatchIdle
    /\ IF component = "local" THEN TRUE ELSE LocalIdle
    /\ IF component = "score" THEN TRUE ELSE ScoreIdle
    /\ IF component = "email" THEN TRUE ELSE EmailIdle
    /\ IF component = "extract" THEN TRUE ELSE ExtractIdle
    /\ IF component = "sections" THEN TRUE ELSE SectionsIdle
    /\ IF component = "label" THEN TRUE ELSE LabelIdle
    /\ IF component = "parser" THEN TRUE ELSE ParserIdle
    /\ IF component = "server" THEN TRUE ELSE ServerIdle
    /\ IF component = "classifier" THEN TRUE ELSE ClassifierIdle
    /\ IF component = "phone" THEN TRUE ELSE PhoneIdle
    /\ IF component = "atomic" THEN TRUE ELSE AtomicIdle

Frame(component) ==
    /\ IF component \in {"dedup", "atomic"} THEN TRUE ELSE UNCHANGED dedupVars
    /\ IF component = "hash" THEN TRUE ELSE UNCHANGED hashVars
    /\ IF component = "match" THEN TRUE ELSE UNCHANGED matchVars
    /\ IF component = "local" THEN TRUE ELSE UNCHANGED localVars
    /\ IF component = "score" THEN TRUE ELSE UNCHANGED scoreVars
    /\ IF component = "email" THEN TRUE ELSE UNCHANGED emailVars
    /\ IF component = "extract" THEN TRUE ELSE UNCHANGED extractVars
    /\ IF component = "sections" THEN TRUE ELSE UNCHANGED sectionVars
    /\ IF component = "label" THEN TRUE ELSE UNCHANGED labelVars
    /\ IF component = "parser" THEN TRUE ELSE UNCHANGED parserVars
    /\ IF component = "server" THEN TRUE ELSE UNCHANGED serverVars
    /\ IF component = "classifier" THEN TRUE ELSE UNCHANGED classifierVars
    /\ IF component = "phone" THEN TRUE ELSE UNCHANGED phoneVars
    /\ IF component = "atomic" THEN TRUE ELSE UNCHANGED atomicVars

InitDedup ==
    /\ IdleExcept("dedup")
    /\ corpus = NewDeduplicator.corpus
    /\ hashes = NewDeduplicator.hashes
    /\ vectorizer = NewDeduplicator.vectorizer
    /\ matrix = NewDeduplicator.matrix
    /\ dirty = NewDeduplicator.dirty
    /\ call = NoCall

NextDedup ==
    \/ \E job \in Jobs : IsDuplicate(job) /\ Frame("dedup")
    \/ \E job \in Jobs : AddJob(job) /\ Frame("dedup")
    \/ \E hs \in HashLists : LoadExistingHashes(hs) /\ Frame("dedup")
    \/ \E jobs \in LoadLists : LoadExistingJobs(jobs) /\ Frame("dedup")

SpecDedup == InitDedup /\ [][NextDedup]_vars

InitHash ==
    /\ IdleExcept("hash")
    /\ hashArgs \in {<<a, <<t, c, l>>>> :
                        a \in SeedTriples, t \in StringsUpTo(MaxStrLen),
                        c \in StringsUpTo(MaxStrLen), l \in StringsUpTo(MaxStrLen)}
    /\ hashRet = <<>>

NextHash == ComputeHashes /\ Frame("hash")

SpecHash == InitHash /\ [][NextHash]_vars

InitMatch ==
    /\ IdleExcept("match")
    /\ mJobs \in SeqsUpTo(JobIds, MaxJobs)
    /\ mPc = "called"
    /\ mAttempt = 0
    /\ mCalls = 0
    /\ mSleeps = <<>>
    /\ mScores = <<>>
    /\ mResult = <<>>
    /\ mLast = NoResponse

NextMatch ==
    \/ MatchJobs /\ Frame("match")
    \/ \E resp \in Responses : Attempt(resp) /\ Frame("match")
    \/ Rank /\ Frame("match")

SpecMatch == InitMatch /\ [][NextMatch]_vars

InitLocal ==
    /\ IdleExcept("local")
    /\ lmSkills \in SUBSET SkillPool
    /\ lmJobSkills \in SUBSET SkillPool
    /\ lmYears \in 0..MaxYears
    /\ lmPc = "called"
    /\ lmScore = 0

NextLocal == LocalMatch /\ Frame("local")

SpecLocal == InitLocal /\ [][NextLocal]_vars

InitScore ==
    /\ IdleExcept("score")
    /\ spProfile \in BaseProfiles
    /\ spLast = 0
    /\ spEdits = 0
    /\ spPc = "building"
    /\ spScores = <<>>

NextScore ==
    \/ \E k \in DOMAIN FieldOrder : \E value \in FieldValues(FieldOrder[k]) :
          SetField(k, value) /\ Frame("score")
    \/ ScoreProfile /\ Frame("score")

SpecScore == InitScore /\ [][NextScore]_vars

InitEmail ==
    /\ IdleExcept("email")
    /\ emValue \in {pre \o core \o post :
                       pre \in PadsUpTo(MaxPad), core \in EmailCores, post \in PadsUpTo(MaxPad)}
    /\ emPc = "called"
    /\ emScore = 0

NextEmail == ScoreEmail /\ Frame("email")

SpecEmail == InitEmail /\ [][NextEmail]_vars

InitExtract ==
    /\ IdleExcept("extract")
    /\ exText \in {seed \o Concat(parts) :
                      seed \in SeedTexts, parts \in SeqsUpTo(PartPool, MaxParts)}
    /\ exNer \in NerChoices
    /\ exPc = "called"
    /\ exProfile = <<>>
    /\ exScores = <<>>

NextExtract ==
    \/ ExtractProfile /\ Frame("extract")
    \/ ScoreExtracted /\ Frame("extract")

SpecExtract == InitExtract /\ [][NextExtract]_vars

(***************************************************************************)
(* Claims on the deduplicator                                              *)
(***************************************************************************)
IndexFields == <<corpus, hashes, vectorizer, matrix, dirty>>

\* C1: a recorded hash stays recorded, and every later add_job of a job with
\* a recorded hash returns False and every is_duplicate of it returns True,
\* whatever calls came between; the first add_job on a fresh index returns
\* True, so add_job(j); add_job(j) gives (True, False).
C1_RecordedHashIsDuplicate ==
    [][/\ hashes \subseteq hashes'
       /\ (call'.op = "add_job" /\ JobHash(call'.job) \in hashes)
             => (~call'.ret /\ ~call'.raised)
       /\ (call'.op = "is_duplicate" /\ JobHash(call'.job) \in hashes) => call'.ret
       /\ (call'.op = "add_job" /\ hashes = {} /\ corpus = <<>>)
             => (call'.ret /\ JobHash(call'.job) \in hashes')]_vars

\* a job is turned away by its recorded hash alone: the index holds a single
\* text, so no similarity check ran
C1_Witness ==
    /\ call.op = "add_job"
    /\ ~call.ret
    /\ JobHash(call.job) \in hashes
    /\ Len(corpus) = 1

\* C2 as stated: an add_job that returns False leaves every field of the
\* index as it was.
C2_RejectedAddChangesNothing ==
    [][(call'.op = "add_job" /\ ~call'.ret /\ ~call'.raised)
          => UNCHANGED IndexFields]_vars

\* C2, amended: an add_job that returns False leaves the hash set and the
\* corpus as they were; the model, the matrix and the dirty flag are as they
\* were too unless the index was dirty with a fitted model, and then they are
\* the fit of the whole corpus with the dirty flag cleared.
C2_RejectedAddKeepsHashesAndCorpus ==
    [][(call'.op = "add_job" /\ ~call'.ret /\ ~call'.raised)
          => /\ UNCHANGED <<hashes, corpus>>
             /\ \/ UNCHANGED <<vectorizer, matrix, dirty>>
                \/ /\ dirty /\ vectorizer.fitted /\ Len(corpus) >= 2
                   /\ JobHash(call'.job) \notin hashes
                   /\ ~dirty'
                   /\ vectorizer' = FitTransform(corpus).vectorizer
                   /\ matrix' = FitTransform(corpus).matrix]_vars

\* a job is turned away as a near-duplicate by a check that rebuilt the model
C2_Witness ==
    /\ call.op = "add_job"
    /\ ~call.ret
    /\ call.stale
    /\ JobHash(call.job) \notin hashes

\* C3: while the corpus holds fewer than two texts, is_duplicate is True
\* exactly when the job's hash is recorded (so never on an empty index) and
\* add_job admits exactly the jobs whose hash is not recorded.
C3_BelowTwoTextsOnlyTheHashDecides ==
    [][/\ (call'.op = "is_duplicate" /\ Len(corpus) < 2)
             => (call'.ret <=> JobHash(call'.job) \in hashes)
       /\ (call'.op = "add_job" /\ Len(corpus) < 2)
             => (call'.ret <=> JobHash(call'.job) \notin hashes)]_vars

\* two jobs with different hashes were both admitted into a fresh index
C3_Witness ==
    /\ call.op = "add_job"
    /\ call.ret
    /\ Len(corpus) = 2
    /\ Cardinality(hashes) = 2
    /\ ~vectorizer.fitted

(***************************************************************************)
(* Claims on compute_hash                                                  *)
(***************************************************************************)
\* a string without its leading and trailing whitespace, by position
Trimmed(s) ==
    LET inner == {i \in 1..Len(s) : ~IsSpace(s[i])}
    IN  IF inner = {} THEN <<>>
        ELSE SubSeq(s, CHOOSE i \in inner : \A j \in inner : i <= j,
                       CHOOSE i \in inner : \A j \in inner : i >= j)

SameLetter(c, d) ==
    \/ c = d
    \/ {c, d} \in {{"a", "A"}, {"b", "B"}, {"e", "E"}}

\* two strings that are equal once lower-cased and trimmed
EqualModuloCaseAndSpace(s, t) ==
    /\ Len(Trimmed(s)) = Len(Trimmed(t))
    /\ \A i \in 1..Len(Trimmed(s)) : SameLetter(Trimmed(s)[i], Trimmed(t)[i])

SameNormalizedTriple(x, y) == \A k \in 1..3 : EqualModuloCaseAndSpace(x[k], y[k])

\* C4: two triples that are pairwise equal modulo case and surrounding
\* whitespace hash to the same value.
C4_EqualNormalizedTriplesHashEqual ==
    (hashRet # <<>> /\ SameNormalizedTriple(hashArgs[1], hashArgs[2]))
        => hashRet[1] = hashRet[2]

\* two different argument triples with one normal form were hashed
C4_Witness ==
    /\ hashRet # <<>>
    /\ hashArgs[1] # hashArgs[2]
    /\ SameNormalizedTriple(hashArgs[1], hashArgs[2])
    /\ hashArgs[1][1] = <<" ", "A", " ">>

\* C5: two triples whose normal forms differ in some component hash to
\* different values.
C5_DistinctNormalizedTriplesHashApart ==
    (hashRet # <<>> /\ ~SameNormalizedTriple(hashArgs[1], hashArgs[2]))
        => hashRet[1] # hashRet[2]

(***************************************************************************)
(* Claims on the matcher                                                   *)
(***************************************************************************)
\* result holds the jobs of the input, each once per occurrence, by
\* non-increasing score, equal scores in their input order: result[i] is
\* the annotation of jobs[p[i]] for a permutation p
IsStableRanking(result, jobs) ==
    /\ Len(result) = Len(jobs)
    /\ \A i \in DOMAIN result : result[i].scoreIsNum
    /\ \E p \in [DOMAIN jobs -> DOMAIN jobs] :
          /\ \A i, k \in DOMAIN jobs : i # k => p[i] # p[k]
          /\ \A i \in DOMAIN jobs :
                /\ result[i].job = jobs[p[i]]
                /\ result[i] = Annotated(jobs[p[i]], ScoreData(mScores, p[i]))
          /\ \A i, k \in DOMAIN jobs :
                i < k => \/ result[i].match_score > result[k].match_score
                         \/ /\ result[i].match_score = result[k].match_score
                            /\ p[i] < p[k]

\* C6: every call of match_jobs returns, and returns the input jobs, each
\* annotated, by non-increasing score, ties in input order.
C6_MatchJobsReturnsStableRanking ==
    /\ mPc # "raised"
    /\ mPc = "done" => IsStableRanking(mResult, mJobs)

WeightedSum2(sc) ==
    6 * sc.full_name + 6 * sc.email + 4 * sc.phone + 5 * sc.skills
        + 5 * sc.work_experience + 4 * sc.education + 2 * sc.address
        + 2 * sc.summary + 2 * sc.certifications + 2 * sc.projects
        + sc.linkedin + sc.github

\* C8: score_profile gives each of the twelve fields a score within [0,1]
\* and an overall score within [0,1] that is the weighted mean of the field
\* scores rounded to three decimals: in thousandths, overall is an integer
\* nearest to WeightedSum2 / 40 * 10.
C8_ScoresInRangeOverallIsWeightedMean ==
    spPc = "scored" =>
        /\ DOMAIN spScores = {FieldOrder[k] : k \in DOMAIN FieldOrder} \cup {"overall"}
        /\ \A k \in DOMAIN FieldOrder : spScores[FieldOrder[k]] \in 0..100
        /\ spScores.overall \in 0..1000
        /\ 4 * spScores.overall - WeightedSum2(spScores) <= 2
        /\ WeightedSum2(spScores) - 4 * spScores.overall <= 2

\* a profile with a malformed name, a well-formed email and no phone has
\* been scored
C8_Witness ==
    /\ spPc = "scored"
    /\ spScores.full_name = 35
    /\ spScores.email = 100
    /\ spScores.phone = 0
    /\ spScores.overall > 0

\* local@domain.tld, strictly: one "@", after at least one character of the
\* local part; the last "." comes after at least one character of the
\* domain and before at least two letters, and nothing else is in the value
StrictEmailFormat(v) ==
    LET ats == {i \in 1..Len(v) : v[i] = "@"}
        dots == {i \in 1..Len(v) : v[i] = "."}
    IN  /\ Cardinality(ats) = 1
        /\ dots # {}
        /\ LET at == CHOOSE i \in ats : TRUE
               dot == CHOOSE i \in dots : \A k \in dots : k <= i
           IN  /\ at > 1
               /\ dot > at + 1
               /\ Len(v) - dot >= 2
               /\ \A k \in 1..(at - 1) :
                     v[k] \in LowerLetters \cup UpperLetters \cup Digits
                                 \cup {".", "_", "%", "+", "-"}
               /\ \A k \in (at + 1)..(dot - 1) :
                     v[k] \in LowerLetters \cup UpperLetters \cup Digits \cup {".", "-"}
               /\ \A k \in (dot + 1)..Len(v) : v[k] \in LowerLetters \cup UpperLetters

\* C9 as stated: the email score is 1.0 when the value is in the strict
\* format, 0.40 for any other non-empty value and 0.0 for the empty value.
C9_EmailScoreByFormatOfValue ==
    emPc = "done" =>
        emScore = IF emValue = <<>> THEN 0
                  ELSE IF StrictEmailFormat(emValue) THEN 100 ELSE 40

\* C9, amended: the email score is 1.0 when the value without its leading
\* and trailing whitespace is in the strict format, 0.40 for any other
\* non-empty value and 0.0 for the empty value.
C9_EmailScoreByFormatOfTrimmedValue ==
    emPc = "done" =>
        emScore = IF emValue = <<>> THEN 0
                  ELSE IF StrictEmailFormat(Trimmed(emValue)) THEN 100 ELSE 40

\* an address in the strict format with whitespace around it scored 1.0
C9_Witness ==
    /\ emPc = "done"
    /\ emValue # Trimmed(emValue)
    /\ StrictEmailFormat(Trimmed(emValue))
    /\ emScore = 100

(***************************************************************************)
(* Claims on the extractor                                                 *)
(***************************************************************************)
StringFields ==
    {"full_name", "email", "phone", "address", "linkedin", "github", "summary", "raw_text"}

ListFields == {"education", "skills", "certifications", "work_experience", "projects"}

\* C10: extract_profile("") returns a profile, whatever the entity-recognition
\* stage does, with every string field "" and every list field [], and
\* score_profile gives that profile 0.0 for each of the twelve fields and for
\* overall.
C10_EmptyTextGivesEmptyProfileScoredZero ==
    (exText = <<>> /\ exPc \in {"extracted", "scored"}) =>
        /\ DOMAIN exProfile = StringFields \cup ListFields
        /\ \A f \in StringFields \cup ListFields : Len(exProfile[f]) = 0
        /\ exPc = "scored" =>
              /\ DOMAIN exScores = (StringFields \ {"raw_text"}) \cup ListFields \cup {"overall"}
              /\ \A f \in DOMAIN exScores : exScores[f] = 0

\* the empty text went through an entity-recognition stage that is available
\* and the profile was scored
C10_Witness ==
    /\ exText = <<>>
    /\ exNer.mode = "ok"
    /\ exPc = "scored"
    /\ exScores.overall = 0

(***************************************************************************)
(* Claims on the similarity stage of the deduplicator                      *)
(***************************************************************************)
\* the maximum similarity between a job's text and the texts of a corpus is
\* at least the threshold: the measure taken over a model of that corpus
SimilarToCorpus(texts, job) ==
    Bind(FitTransform(texts), LAMBDA fit :
        /\ ~fit.raised
        /\ MaxSimAtLeast(Transform(fit.vectorizer, job_to_text(job)), fit.matrix))

\* C15: on an index of two or more texts, is_duplicate of a job whose hash is
\* not recorded returns True exactly when the maximum similarity between the
\* job's text and the texts of the corpus is at least the threshold.
C15_NearDuplicateIffMaxSimilarityAtThreshold ==
    [][(/\ call'.op = "is_duplicate"
        /\ JobHash(call'.job) \notin hashes
        /\ Len(corpus) >= 2)
          => (call'.ret <=> SimilarToCorpus(corpus, call'.job))]_vars

\* the texts of a list of jobs, in order
TextsOf(jobs) == [i \in DOMAIN jobs |-> job_to_text(jobs[i])]

\* the model is fitted over every text of the corpus
FittedOver(vec, mat, texts) ==
    /\ vec.fitted
    /\ vec.vocabulary = UNION {TermSet(Analyze(texts[i])) : i \in DOMAIN texts}
    /\ mat.built
    /\ mat.cols = vec.vocabulary
    /\ Len(mat.rows) = Len(texts)

\* C17: load_existing_jobs appends one text per loaded job, in order; a load
\* of two or more jobs returns with the model fitted over the whole corpus and
\* the dirty flag cleared, and a load that leaves fewer than two texts builds
\* no model.
C17_LoadAppendsAndRebuilds ==
    [][call'.op = "load_existing_jobs"
          => /\ corpus' = corpus \o TextsOf(call'.jobs)
             /\ Len(call'.jobs) >= 2
                   => /\ ~call'.raised
                      /\ FittedOver(vectorizer', matrix', corpus')
                      /\ ~dirty'
             /\ Len(corpus') < 2 => UNCHANGED <<vectorizer, matrix>>]_vars

\* C18: a similarity check that fails inside is_duplicate is caught: the call
\* returns False without raising and leaves the hash set and the corpus as
\* they were, and an add_job of the same job that follows returns True.
C18_FailedSimilarityCheckFailsOpen ==
    [][/\ (call'.op = "is_duplicate" /\ call'.failed)
             => (~call'.ret /\ ~call'.raised /\ UNCHANGED <<hashes, corpus>>)
       /\ (/\ call.op = "is_duplicate" /\ call.failed
           /\ call'.op = "add_job" /\ call'.job = call.job)
             => call'.ret]_vars

(***************************************************************************)
(* The index of one crawl run (modules/scheduler.py:62-85): a new          *)
(* JobDeduplicator is seeded with the stored jobs by load_existing_jobs    *)
(* and then offered the scraped jobs one by one.  Each job has a title of  *)
(* its own, so no two of them are near-duplicates.                         *)
(***************************************************************************)
MaxExisting == 19
MaxIndexed == 21

DigitSeq == <<"0", "1", "2", "3", "4", "5", "6", "7", "8", "9">>
TwoDigits(i) == <<DigitSeq[(i \div 10) + 1], DigitSeq[(i % 10) + 1]>>

\* the i-th job stored in the database
StoredJob(i) == [title |-> <<"s">> \o TwoDigits(i), company |-> <<"c", "o">>]

\* the i-th job the scraper returns, its hash computed by the scraper
ScrapedJob(i) ==
    [title |-> <<"j">> \o TwoDigits(i), company |-> <<"c", "o">>,
     content_hash |-> compute_hash(<<"j">> \o TwoDigits(i), <<"c", "o">>, <<>>)]

\* deduper.load_existing_jobs(existing) on the new index
CrawlLoad(n) ==
    /\ call.op = "init"
    /\ \E jobs \in {[i \in 1..n |-> StoredJob(i)]} :
       \E l \in {load_existing_jobs(Self, jobs)} :
          /\ SetSelf(l.self)
          /\ call' = [op |-> "load_existing_jobs", job |-> NoJob, jobs |-> jobs,
                      ret |-> FALSE, raised |-> l.raised, failed |-> FALSE,
                      stale |-> FALSE]

\* deduper.add_job(job) for the next scraped job, or for the one before it
\* when the page lists a job twice
CrawlAdd(k) ==
    /\ call.op # "init"
    /\ k >= 1
    /\ \E a \in {add_job(Self, ScrapedJob(k))} :
          /\ Len(a.self.corpus) <= MaxIndexed
          /\ SetSelf(a.self)
          /\ call' = [op |-> "add_job", job |-> ScrapedJob(k), ret |-> a.ret,
                      raised |-> a.raised, failed |-> a.check.failed,
                      stale |-> a.check.stale]

InitCrawlIndex == InitDedup

NextCrawlIndex ==
    \/ \E n \in 0..MaxExisting : CrawlLoad(n) /\ Frame("dedup")
    \/ \E k \in {Cardinality(hashes), Cardinality(hashes) + 1} :
          CrawlAdd(k) /\ Frame("dedup")

SpecCrawlIndex == InitCrawlIndex /\ [][NextCrawlIndex]_vars

\* C16 as stated: an add_job that returns True records the hash and appends
\* the text; it rebuilds the model on every 20th add_job that returned True
\* and on no other, and after that rebuild the model covers the whole corpus
\* and the dirty flag is cleared; otherwise the index is left dirty.
C16_RebuildOnEvery20thInsertion ==
    [][(call'.op = "add_job" /\ call'.ret)
          => /\ hashes' = hashes \cup {JobHash(call'.job)}
             /\ corpus' = Append(corpus, job_to_text(call'.job))
             /\ IF Cardinality(hashes') % 20 = 0
                THEN ~dirty' /\ FittedOver(vectorizer', matrix', corpus')
                ELSE dirty' /\ UNCHANGED <<vectorizer, matrix>>]_vars

\* C16, amended: an add_job that returns True records the hash and appends
\* the text.  After the append it rebuilds the model exactly when the corpus,
\* the texts loaded by load_existing_jobs included, holds a multiple of 20
\* texts, and after that rebuild the model covers the whole corpus and the
\* dirty flag is cleared.  Otherwise the index is left dirty, and the model
\* is the one the duplicate check of the call left: rebuilt over the corpus
\* as it was before the append when the index was dirty with a fitted model,
\* untouched when it was not.
C16_RebuildOnEvery20thText ==
    [][(call'.op = "add_job" /\ call'.ret)
          => /\ hashes' = hashes \cup {JobHash(call'.job)}
             /\ corpus' = Append(corpus, job_to_text(call'.job))
             /\ IF Len(corpus') % 20 = 0
                THEN ~dirty' /\ FittedOver(vectorizer', matrix', corpus')
                ELSE /\ dirty'
                     /\ IF dirty /\ vectorizer.fitted /\ Len(corpus) >= 2
                        THEN FittedOver(vectorizer', matrix', corpus)
                        ELSE UNCHANGED <<vectorizer, matrix>>]_vars

\* the first job admitted into an index seeded with 19 texts brought the
\* corpus to 20 texts and the model was rebuilt over them
C16_Witness ==
    /\ call.op = "add_job"
    /\ call.ret
    /\ Cardinality(hashes) = 1
    /\ Len(corpus) = 20
    /\ ~dirty
    /\ Len(matrix.rows) = 20

(***************************************************************************)
(* Claims on the retry loop of batch_calculate_matches                     *)
(***************************************************************************)
\* batch_calculate_matches run to its end: each step of the call is taken
SpecMatchLive == SpecMatch /\ WF_vars(NextMatch)

\* a list of n entries, each the fallback score
UniformFallback(scores, n) ==
    /\ Len(scores) = n
    /\ \A i \in 1..n : scores[i].isDict /\ scores[i].hasScore /\ scores[i].score = 50

\* what a call of the service must be followed by, given the kinds of
\* response that count as a failed attempt
RetryDiscipline(failedKinds) ==
    mCalls' # mCalls =>
          /\ mCalls' = mCalls + 1
          /\ mCalls' <= 3
          /\ IF mLast'.kind = "list" /\ Len(mLast'.items) = Len(mJobs)
             THEN mPc' = "scored" /\ mScores' = mLast'.items /\ mSleeps' = mSleeps
             ELSE IF mLast'.kind \in failedKinds
             THEN IF mCalls' < 3
                  THEN mPc' = "attempt" /\ mSleeps' = Append(mSleeps, 2 * mCalls')
                  ELSE /\ mPc' = "scored" /\ mSleeps' = mSleeps
                       /\ UniformFallback(mScores', Len(mJobs))
             ELSE /\ mPc' = "scored" /\ mSleeps' = mSleeps
                  /\ UniformFallback(mScores', Len(mJobs))

\* the call leaves the retry loop
LoopTerminates == <>(mPc \notin {"called", "attempt"})

\* C20 as stated: the loop ends after at most 3 calls of the service; a call
\* answered by a list with one entry per job returns that list; a call that
\* fails (service error, unparsable response) is followed by a wait of
\* 2 x attempt seconds and another call, or by the uniform fallback when it
\* was the third; any other response is followed at once by the fallback.
C20_RetriesOnlyAfterErrorOrUnparsable ==
    [][RetryDiscipline({"error", "not_json"})]_vars /\ LoopTerminates

\* C20, amended: as stated, a response that parses to a JSON number, boolean
\* or null counting as a failed attempt too.
C20_RetriesAfterErrorUnparsableOrScalar ==
    [][RetryDiscipline({"error", "not_json", "scalar"})]_vars /\ LoopTerminates

\* three calls failed, the last answered by a JSON scalar, with waits of 2
\* and 4 seconds between them, and the fallback was returned
C20_Witness ==
    /\ mPc = "scored"
    /\ mCalls = 3
    /\ mSleeps = <<2, 4>>
    /\ mLast.kind = "scalar"
    /\ UniformFallback(mScores, Len(mJobs))

(***************************************************************************)
(* _split_sections(_normalize_text(text)) on résumés put together from     *)
(* header lines, content lines and blank lines                             *)
(***************************************************************************)
MaxLines == 4

HeaderLines ==
    {<<"E", "d", "u", "c", "a", "t", "i", "o", "n">>,
     <<"S", "k", "i", "l", "l", "s">>,
     <<"W", "o", "r", "k", " ", "E", "x", "p", "e", "r", "i", "e", "n", "c", "e">>}

ContentLines == {<<"M", "I", "T">>, <<"g", "o", " ", "s", "q", "l">>}

LinePool == HeaderLines \cup ContentLines \cup {<<>>}

InitSections ==
    /\ IdleExcept("sections")
    /\ ssLines \in SeqsUpTo(LinePool, MaxLines)
    /\ ssPc = "called"
    /\ ssSections = <<>>

\* sections = _split_sections(_normalize_text(text))
SplitSections ==
    /\ ssPc = "called"
    /\ ssSections' = split_sections(normalize_text(Join(<<"\n">>, ssLines)))
    /\ ssPc' = "done"
    /\ UNCHANGED ssLines

NextSections == SplitSections /\ Frame("sections")

SpecSections == InitSections /\ [][NextSections]_vars

\* the section a header line names
SectionNamed(line) ==
    IF line = <<"E", "d", "u", "c", "a", "t", "i", "o", "n">> THEN "education"
    ELSE IF line = <<"S", "k", "i", "l", "l", "s">> THEN "skills"
    ELSE "work_experience"

\* sub occurs in s
Contains(s, sub) ==
    \E i \in 1..(Len(s) - Len(sub) + 1) : SubSeq(s, i, i + Len(sub) - 1) = sub

\* the résumé has a header line, no header line occurs twice, and every
\* header line is followed by a content line
HeadersStandAlone(lines) ==
    /\ \E k \in DOMAIN lines : lines[k] \in HeaderLines
    /\ \A j, k \in DOMAIN lines :
          (lines[j] \in HeaderLines /\ lines[j] = lines[k]) => j = k
    /\ \A k \in DOMAIN lines :
          lines[k] \in HeaderLines
             => (k < Len(lines) /\ lines[k + 1] \in ContentLines)

\* line j belongs to the header at line k: it comes after it and before the
\* next header line
Under(lines, k, j) ==
    /\ j > k
    /\ \A i \in (k + 1)..j : lines[i] \notin HeaderLines

\* C12: when the headers of a résumé stand alone on lines of their own, each
\* followed by content lines, the split finds more than one section and each
\* header opens a section that holds the lines between it and the next header.
C12_HeadersOnOwnLinesOpenSections ==
    (ssPc = "done" /\ HeadersStandAlone(ssLines)) =>
        /\ Cardinality(DOMAIN ssSections) > 1
        /\ \A k \in DOMAIN ssLines :
              ssLines[k] \in HeaderLines =>
                 /\ SectionNamed(ssLines[k]) \in DOMAIN ssSections
                 /\ \A j \in DOMAIN ssLines :
                       Under(ssLines, k, j) =>
                          Contains(ssSections[SectionNamed(ssLines[k])], ssLines[j])

(***************************************************************************)
(* get_confidence_label (confidence_scorer.py:127-136).  Scores are in     *)
(* thousandths, the precision of the overall score.                        *)
(***************************************************************************)
\* the label with "high" starting above 0.85
get_confidence_label_StrictHigh(score) ==
    IF score > 850 THEN "high"
    ELSE IF score >= 550 THEN "medium"
    ELSE IF score > 0 THEN "low"
    ELSE "missing"

\* get_confidence_label
get_confidence_label(score) ==
    IF score >= 850 THEN "high"
    ELSE IF score >= 550 THEN "medium"
    ELSE IF score > 0 THEN "low"
    ELSE "missing"

\* how far below 0.0 and above 1.0 the scores passed in go, in thousandths
MaxBeyond == 40

\* the scores the first call is compared with: the thresholds, their
\* neighbours and the ends of the range
LabelSeeds == {0, 1, 549, 550, 849, 850, 1000}

InitLabel ==
    /\ IdleExcept("label")
    /\ lbScores \in LabelSeeds \X ((0 - MaxBeyond)..(1000 + MaxBeyond))
    /\ lbPc = "called"
    /\ lbLabels = <<>>

GetConfidenceLabels ==
    /\ lbPc = "called"
    /\ lbLabels' = <<get_confidence_label(lbScores[1]), get_confidence_label(lbScores[2])>>
    /\ lbPc' = "done"
    /\ UNCHANGED lbScores

NextLabel == GetConfidenceLabels /\ Frame("label")

SpecLabel == InitLabel /\ [][NextLabel]_vars

\* the labels from the lowest to the highest
LabelRank(label) ==
    CASE label = "missing" -> 0
      [] label = "low" -> 1
      [] label = "medium" -> 2
      [] label = "high" -> 3

\* C14: every score gets exactly one of the four labels: "high" exactly from
\* 0.85 up, "medium" exactly from 0.55 to below 0.85, "low" exactly above 0
\* and below 0.55, "missing" exactly at 0 and below; the label never goes
\* down when the score goes up, and a score of 0.0 is "missing" while no
\* other score in [0,1] is.
C14_LabelIsTotalAndMonotone ==
    lbPc = "done" =>
        /\ \A i \in 1..2 :
              /\ lbLabels[i] \in {"high", "medium", "low", "missing"}
              /\ lbLabels[i] = "high" <=> lbScores[i] >= 850
              /\ lbLabels[i] = "medium" <=> (550 <= lbScores[i] /\ lbScores[i] < 850)
              /\ lbLabels[i] = "low" <=> (0 < lbScores[i] /\ lbScores[i] < 550)
              /\ lbLabels[i] = "missing" <=> lbScores[i] <= 0
        /\ lbScores[1] <= lbScores[2] => LabelRank(lbLabels[1]) <= LabelRank(lbLabels[2])
        /\ lbScores[1] >= lbScores[2] => LabelRank(lbLabels[1]) >= LabelRank(lbLabels[2])

\* a score of exactly 0.85 was labelled "high" next to a score of 0.0
\* labelled "missing"
C14_Witness ==
    /\ lbPc = "done"
    /\ lbScores = <<850, 0>>
    /\ lbLabels = <<"high", "missing">>

(***************************************************************************)
(* backend/parser.py: parse_resume and the two profile builders            *)
(***************************************************************************)
\* EMPTY_PROFILE
EMPTY_PROFILE ==
    [name |-> <<>>, email |-> <<>>, phone |-> <<>>, linkedin |-> <<>>,
     github |-> <<>>, skills |-> <<>>, experience_years |-> 0,
     education |-> <<>>, previous_roles |-> <<>>, location |-> <<>>]

\* {**base, **over}
Overlay(base, over) ==
    [k \in DOMAIN base \cup DOMAIN over |-> IF k \in DOMAIN over THEN over[k] ELSE base[k]]

\* s.startswith(prefix)
StartsWith(s, prefix) == Len(s) >= Len(prefix) /\ SubSeq(s, 1, Len(prefix)) = prefix

\* s.strip(chars)
StripChars(s, chars) ==
    LET keep == {i \in 1..Len(s) : s[i] \notin chars}
    IN  IF keep = {} THEN <<>>
        ELSE SubSeq(s, CHOOSE i \in keep : \A k \in keep : i <= k,
                       CHOOSE i \in keep : \A k \in keep : i >= k)

\* str.isupper(): there is a cased character and no cased character is lower
IsUpperStr(s) ==
    /\ \E i \in 1..Len(s) : s[i] \in UpperLetters
    /\ \A i \in 1..Len(s) : s[i] \notin LowerLetters

\* the items of a list at the positions in idx, in order
AtIndices(items, idx) ==
    [k \in 1..Cardinality(idx) |->
        items[CHOOSE i \in idx : Cardinality({j \in idx : j < i}) = k - 1]]

\* list(dict.fromkeys(items)): the first occurrence of each item, in order
Unique(items) ==
    AtIndices(items, {i \in 1..Len(items) : \A j \in 1..(i - 1) : items[j] # items[i]})

\* int(digits)
RECURSIVE ToInt(_)
ToInt(digits) ==
    IF digits = <<>> THEN 0
    ELSE 10 * ToInt(SubSeq(digits, 1, Len(digits) - 1))
            + (CHOOSE d \in 0..9 : DigitSeq[d + 1] = digits[Len(digits)])

\* the patterns of build_profile_from_text
PARSER_EMAIL_RE ==
    <<CharSet(EmailLocalChars, 1, Unbounded), CharSet({"@"}, 1, 1),
      CharSet(EmailDomainChars, 1, Unbounded), CharSet({"."}, 1, 1),
      CharSet(Letters, 2, Unbounded)>>

PARSER_URL_RE ==
    <<Alt(<<Lit(<<"h", "t", "t", "p">>) \o <<CharSet({"s"}, 0, 1)>> \o Lit(<<":", "/", "/">>)
               \o <<CharSet(NonSpace, 1, Unbounded)>>,
            Lit(<<"w", "w", "w", ".">>) \o <<CharSet(NonSpace, 1, Unbounded)>>,
            Lit(<<"l", "i", "n", "k", "e", "d", "i", "n", ".", "c", "o", "m",
                  "/">>) \o <<CharSet(NonSpace, 1, Unbounded)>>,
            Lit(<<"g", "i", "t", "h", "u", "b", ".", "c", "o", "m",
                  "/">>) \o <<CharSet(NonSpace, 1, Unbounded)>>>>)>>

PARSER_PHONE_RE ==
    <<CharSet({"+"}, 0, 1), CharSet(Digits, 1, 1),
      CharSet(Digits \cup {"-"} \cup Whitespace, 7, Unbounded), CharSet(Digits, 1, 1)>>

YEARS_RE ==
    <<CharSet(Digits, 1, Unbounded), AnyWs, CharSet({"+"}, 0, 1), AnyWs>>
        \o Lit(<<"y", "e", "a", "r">>) \o <<CharSet({"s"}, 0, 1)>>

WORD_NUMS ==
    <<[word |-> <<"o", "n", "e">>, value |-> 1], [word |-> <<"t", "w", "o">>, value |-> 2],
      [word |-> <<"t", "h", "r", "e", "e">>, value |-> 3], [word |-> <<"f", "o", "u",
                                                            "r">>, value |-> 4],
      [word |-> <<"f", "i", "v", "e">>, value |-> 5], [word |-> <<"s", "i", "x">>, value |-> 6],
      [word |-> <<"s", "e", "v", "e", "n">>, value |-> 7], [word |-> <<"e", "i", "g", "h",
                                                            "t">>, value |-> 8],
      [word |-> <<"n", "i", "n", "e">>, value |-> 9], [word |-> <<"t", "e", "n">>, value |-> 10]>>

WORD_YEARS_RE ==
    <<WordBoundary, Alt([k \in DOMAIN WORD_NUMS |-> Lit(WORD_NUMS[k].word)]),
      CharSet(Whitespace, 1, Unbounded)>> \o Lit(<<"y", "e", "a", "r">>) \o <<CharSet({"s"}, 0, 1)>>

NUMBER_RE ==
    <<CharSet(Digits, 1, Unbounded),
      Group(<<CharSet({"."}, 1, 1), CharSet(Digits, 1, Unbounded)>>, 0, 1)>>

DATE_PREFIX_RE ==
    <<LineStart, AnyWs, CharSet(Digits, 4, 4), AnyWs, CharSet({"-"}, 1, 1), AnyWs,
      Alt(<<<<CharSet(Digits, 4, 4)>>, Lit(<<"p", "r", "e", "s", "e", "n", "t">>), Lit(<<"P",
                                                            "r", "e", "s", "e", "n",
                                                            "t">>)>>), AnyWs>>

KNOWN_SKILLS ==
    <<<<"P", "y", "t", "h", "o", "n">>, <<"J", "a", "v", "a">>, <<"J", "a", "v", "a", "S",
                                                            "c", "r", "i", "p", "t">>, <<"T",
                                                            "y", "p", "e", "S", "c", "r", "i",
                                                            "p", "t">>, <<"R", "e", "a", "c",
                                                            "t">>, <<"N", "o", "d", "e", ".",
                                                            "j", "s">>,
      <<"S", "Q", "L">>, <<"M", "y", "S", "Q", "L">>, <<"P", "o", "s", "t", "g", "r", "e",
                                                        "S", "Q", "L">>, <<"M", "o", "n", "g",
                                                        "o", "D", "B">>,
      <<"H", "T", "M", "L">>, <<"C", "S", "S">>, <<"D", "j", "a", "n", "g", "o">>, <<"F", "l",
                                                            "a", "s", "k">>, <<"F", "a", "s",
                                                            "t", "A", "P", "I">>,
      <<"A", "W", "S">>, <<"A", "z", "u", "r", "e">>, <<"G", "C", "P">>, <<"D", "o", "c", "k",
                                                            "e", "r">>, <<"K", "u", "b", "e",
                                                            "r", "n", "e", "t", "e", "s">>,
      <<"P", "a", "n", "d", "a", "s">>, <<"N", "u", "m", "P", "y">>, <<"S", "c", "i", "k",
                                                            "i", "t", "-", "l", "e", "a", "r",
                                                            "n">>, <<"T", "e", "n", "s", "o",
                                                            "r", "F", "l", "o", "w">>, <<"P",
                                                            "y", "T", "o", "r", "c", "h">>,
      <<"P", "o", "w", "e", "r", " ", "B", "I">>, <<"T", "a", "b", "l", "e", "a",
                                                    "u">>, <<"E", "x", "c", "e", "l">>, <<"G",
                                                    "i", "t">>, <<"L", "i", "n", "u", "x">>,
      <<"M", "a", "c", "h", "i", "n", "e", " ", "L", "e", "a", "r", "n", "i", "n",
        "g">>, <<"D", "a", "t", "a", " ", "A", "n", "a", "l", "y", "s", "i", "s">>>>

EDU_KEYWORDS ==
    {<<"b", "a", "c", "h", "e", "l", "o", "r">>, <<"m", "a", "s", "t", "e", "r">>, <<"b", ".",
                                                            "t", "e", "c", "h">>, <<"b", "t",
                                                            "e", "c", "h">>, <<"b", ".",
                                                            "e">>, <<"b", "e", " ">>,
     <<"m", ".", "t", "e", "c", "h">>, <<"m", "t", "e", "c", "h">>, <<"m", ".", "e">>, <<"b",
                                                            "s", "c">>, <<"m", "s",
                                                            "c">>, <<"b", "s", "c",
                                                            ".">>, <<"m", "s", "c", ".">>,
     <<"d", "e", "g", "r", "e", "e">>, <<"b", "a", "c", "h", "e", "l", "o", "r", " ", "o",
                                         "f">>, <<"m", "a", "s", "t", "e", "r", " ", "o",
                                         "f">>, <<"b", "s", " ", "i", "n">>, <<"b", "a", " ",
                                         "i", "n">>}

NAME_STOP_WORDS ==
    {<<"r", "e", "s", "u", "m", "e">>, <<"c", "u", "r", "r", "i", "c", "u", "l", "u", "m",
                                         " ", "v", "i", "t", "a", "e">>, <<"c", "v">>, <<"p",
                                         "h", "o", "n", "e">>, <<"e", "m", "a", "i",
                                         "l">>, <<"c", "o", "n", "t", "a", "c", "t">>}

CITIES ==
    {<<"h", "y", "d", "e", "r", "a", "b", "a", "d">>, <<"b", "a", "n", "g", "a", "l", "o",
                                                        "r", "e">>, <<"b", "e", "n", "g", "a",
                                                        "l", "u", "r", "u">>, <<"m", "u", "m",
                                                        "b", "a", "i">>, <<"p", "u", "n",
                                                        "e">>, <<"c", "h", "e", "n", "n", "a",
                                                        "i">>,
     <<"d", "e", "l", "h", "i">>, <<"k", "o", "l", "k", "a", "t", "a">>, <<"n", "o", "i", "d",
                                                            "a">>, <<"g", "u", "r", "g", "a",
                                                            "o", "n">>, <<"c", "o", "i", "m",
                                                            "b", "a", "t", "o", "r", "e">>}

\* education[:300]
EducationCap == 300

ROLE_HEADINGS == {<<"e", "x", "p", "e", "r", "i", "e", "n", "c", "e">>, <<"w", "o", "r", "k",
                                                            " ", "h", "i", "s", "t", "o", "r",
                                                            "y">>, <<"e", "m", "p", "l", "o",
                                                            "y", "m", "e", "n", "t">>}


\* s.split(sep, 1) and re.split("[seps]", s, maxsplit=1)
SplitOnce(s, seps) ==
    LET at == {i \in 1..Len(s) : s[i] \in seps}
    IN  IF at = {} THEN <<s>>
        ELSE LET n == CHOOSE i \in at : \A k \in at : i <= k
             IN  <<SubSeq(s, 1, n - 1), SubSeq(s, n + 1, Len(s))>>

\* lines[from : to] (0-based slice bounds, as in the source)
Slice(lines, from, to) == SubSeq(lines, from + 1, Min(Len(lines), to))

\* the lines of a block up to the next all-caps heading of at most four words
UntilHeading(subs) ==
    LET stops == {i \in 1..Len(subs) : IsUpperStr(subs[i]) /\ WordCount(subs[i]) <= 4}
    IN  IF stops = {} THEN subs
        ELSE SubSeq(subs, 1, (CHOOSE i \in stops : \A k \in stops : i <= k) - 1)

\* the first position of a list that satisfies a test, 0 when there is none
FirstIndex(lines, Test(_)) ==
    LET hits == {i \in 1..Len(lines) : Test(lines[i])}
    IN  IF hits = {} THEN 0 ELSE CHOOSE i \in hits : \A k \in hits : i <= k

\* lines = [ln.strip() for ln in text.splitlines() if ln and ln.strip()]
ProfileLines(text) == StrippedLines(text)

\* email
EmailOf(text) ==
    Bind(Search(PARSER_EMAIL_RE, text),
         LAMBDA m : IF Found(m) THEN Group0(text, m) ELSE <<>>)

\* the matches of the URL pattern, each after match.strip(".,);]")
CleanedUrls(text) ==
    Bind(FindAll(PARSER_URL_RE, text),
         LAMBDA ms : [k \in DOMAIN ms |-> StripChars(Group0(text, ms[k]), {".", ",", ")", ";",
 "]"})])

\* m as the loop stores it: prefixed with https:// unless it starts with http
WithScheme(m, lower) == IF StartsWith(lower, <<"h", "t", "t", "p">>) THEN m ELSE <<"h", "t",
                                                            "t", "p", "s", ":", "/", "/">> \o m

\* linkedin: the first URL that mentions linkedin.com
LinkedinOf(text) ==
    Bind(CleanedUrls(text),
         LAMBDA urls :
            Bind(FirstIndex(urls, LAMBDA u : Contains(Lower(u), <<"l", "i", "n", "k", "e",
                                                            "d", "i", "n", ".", "c", "o", "m">>)),
                 LAMBDA i : IF i = 0 THEN <<>> ELSE WithScheme(urls[i], Lower(urls[i]))))

\* github: the first URL that mentions github.com; when the same URL has just
\* been stored as linkedin, m already carries the prefix and gets it again
GithubOf(text) ==
    Bind(CleanedUrls(text),
         LAMBDA urls :
            Bind(<<FirstIndex(urls, LAMBDA u : Contains(Lower(u), <<"l", "i", "n", "k", "e",
                                                            "d", "i", "n", ".", "c", "o", "m">>)),
                   FirstIndex(urls, LAMBDA u : Contains(Lower(u), <<"g", "i", "t", "h", "u",
                                                            "b", ".", "c", "o", "m">>))>>,
                 LAMBDA ij :
                    IF ij[2] = 0 THEN <<>>
                    ELSE WithScheme(IF ij[1] = ij[2]
                                    THEN WithScheme(urls[ij[2]], Lower(urls[ij[2]]))
                                    ELSE urls[ij[2]],
                                    Lower(urls[ij[2]]))))

\* phone
PhoneOf(text) ==
    Bind(Search(PARSER_PHONE_RE, text),
         LAMBDA m : IF Found(m) THEN Strip(Group0(text, m)) ELSE <<>>)

\* name: the first of the first eight lines that is no contact line or heading
\* and has two to six words
NameOf(text) ==
    Bind(<<Slice(ProfileLines(text), 0, 8), EmailOf(text)>>,
         LAMBDA le :
            Bind(FirstIndex(le[1],
                    LAMBDA ln : /\ ~(le[2] # <<>> /\ Contains(ln, le[2]))
                                /\ \A k \in NAME_STOP_WORDS : ~Contains(Lower(ln), k)
                                /\ WordCount(ln) >= 2 /\ WordCount(ln) <= 6),
                 LAMBDA i : IF i = 0 THEN <<>> ELSE le[1][i]))

\* skills
SkillsOf(text) ==
    AtIndices(KNOWN_SKILLS,
              {k \in DOMAIN KNOWN_SKILLS :
                  Found(Search(<<WordBoundary>> \o LitI(KNOWN_SKILLS[k]) \o <<WordBoundary>>, text))})

\* the run of digits that starts at position i
DigitRun(s, i) ==
    LET ends == {j \in i..Len(s) : \A k \in i..j : s[k] \in Digits}
    IN  SubSeq(s, i, CHOOSE j \in ends : \A k \in ends : j >= k)

\* experience_years
ExperienceYearsOf(text) ==
    Bind(<<Search(YEARS_RE, Lower(text)), Search(WORD_YEARS_RE, Lower(text))>>,
         LAMBDA ms :
            IF Found(ms[1]) THEN ToInt(DigitRun(Lower(text), ms[1].start))
            ELSE IF Found(ms[2])
            THEN LET w == CHOOSE k \in DOMAIN WORD_NUMS :
                              StartsWith(SubSeq(Lower(text), ms[2].start, ms[2].stop - 1),
                                         WORD_NUMS[k].word \o <<" ">>)
                                \/ StartsWith(SubSeq(Lower(text), ms[2].start, ms[2].stop - 1),
                                              WORD_NUMS[k].word \o <<"\n">>)
                                \/ StartsWith(SubSeq(Lower(text), ms[2].start, ms[2].stop - 1),
                                              WORD_NUMS[k].word \o <<"\t">>)
                 IN  WORD_NUMS[w].value
            ELSE Bind(ProfileLines(text),
                      LAMBDA lines :
                         Bind(FirstIndex(lines,
                                LAMBDA ln : /\ StartsWith(Lower(ln), <<"y", "e", "a", "r",
                                                            " ", "o", "f", " ", "e", "x", "p",
                                                            "e", "r", "i", "e", "n", "c", "e">>)
                                            /\ Found(Search(NUMBER_RE, ln))),
                              LAMBDA i :
                                 IF i = 0 THEN 0
                                 ELSE ToInt(DigitRun(lines[i], Search(NUMBER_RE, lines[i]).start)))))

\* education
EducationOf(text) ==
    Bind(ProfileLines(text),
         LAMBDA lines :
            Bind(FirstIndex(lines, LAMBDA ln : StartsWith(Lower(ln), <<"e", "d", "u", "c",
                                                            "a", "t", "i", "o", "n">>)),
                 LAMBDA idx :
                    Bind(IF idx = 0 THEN <<>> ELSE UntilHeading(Slice(lines, idx, idx + 9)),
                         LAMBDA block :
                            Prefix(Join(<<" ", "/", " ">>,
                                        Unique(IF block # <<>> THEN block
                                               ELSE AtIndices(lines,
                                                      {i \in DOMAIN lines :
                                                          \E k \in EDU_KEYWORDS :
                                                              Contains(Lower(lines[i]), k)}))),
                                   EducationCap))))

\* location
LocationOf(text) ==
    Bind(ProfileLines(text),
         LAMBDA lines :
            Bind(<<FirstIndex(Slice(lines, 0, 15), LAMBDA ln : Contains(Lower(ln), <<"l", "o",
                                                            "c", "a", "t", "i", "o", "n">>)),
                   FirstIndex(Slice(lines, 0, 20),
                              LAMBDA ln : \E city \in CITIES : Contains(Lower(ln), city))>>,
                 LAMBDA ij :
                    Bind(IF ij[1] = 0 THEN <<>>
                         ELSE IF Len(SplitOnce(lines[ij[1]], {":"})) = 2
                         THEN Strip(SplitOnce(lines[ij[1]], {":"})[2])
                         ELSE lines[ij[1]],
                         LAMBDA labelled :
                            IF labelled # <<>> THEN labelled
                            ELSE IF ij[2] = 0 THEN <<>>
                            ELSE lines[ij[2]])))

\* previous_roles, first loop: the lines under the first experience heading,
\* without a leading date range and without surrounding dashes
RolesUnderHeading(lines) ==
    Bind(FirstIndex(lines, LAMBDA ln : \E h \in ROLE_HEADINGS : Contains(Lower(ln), h)),
         LAMBDA idx :
            IF idx = 0 THEN <<>>
            ELSE Bind(UntilHeading(Slice(lines, idx, idx + 7)),
                      LAMBDA subs :
                         NonEmpty([k \in DOMAIN subs |->
                                     StripChars(Sub(DATE_PREFIX_RE, <<>>, subs[k]), {" ", "-"})])))

\* role_text of an "Interested Job Function" / "Desired Role" line
RoleText(ln) ==
    IF Len(SplitOnce(ln, {":", "-"})) = 2 THEN Strip(SplitOnce(ln, {":", "-"})[2]) ELSE ln

\* previous_roles, second loop over lines[from..]
RECURSIVE WithDesiredRoles(_, _, _)
WithDesiredRoles(roles, lines, from) ==
    IF from > Len(lines) THEN roles
    ELSE IF /\ \/ Contains(Lower(lines[from]), <<"i", "n", "t", "e", "r", "e", "s", "t", "e",
                                                 "d", " ", "j", "o", "b", " ", "f", "u", "n",
                                                 "c", "t", "i", "o", "n">>)
               \/ Contains(Lower(lines[from]), <<"d", "e", "s", "i", "r", "e", "d", " ", "r",
                                                 "o", "l", "e">>)
            /\ RoleText(lines[from]) # <<>>
            /\ \A k \in DOMAIN roles : roles[k] # RoleText(lines[from])
         THEN WithDesiredRoles(Append(roles, RoleText(lines[from])), lines, from + 1)
         ELSE WithDesiredRoles(roles, lines, from + 1)

\* previous_roles
PreviousRolesOf(text) ==
    Bind(ProfileLines(text),
         LAMBDA lines : WithDesiredRoles(RolesUnderHeading(lines), lines, 1))

\* build_profile_from_text
build_profile_from_text(text) ==
    Overlay(EMPTY_PROFILE,
            [name |-> NameOf(text), email |-> EmailOf(text), phone |-> PhoneOf(text),
             linkedin |-> LinkedinOf(text), github |-> GithubOf(text),
             skills |-> SkillsOf(text), experience_years |-> ExperienceYearsOf(text),
             education |-> EducationOf(text), previous_roles |-> PreviousRolesOf(text),
             location |-> LocationOf(text)])


\* U+2014 in the two "Could not parse" names, written as one ASCII element
EmDash == "--"

INVALID_PDF_NAME ==
    <<"C", "o", "u", "l", "d", " ", "n", "o", "t", " ", "p", "a", "r", "s", "e",
      " ">> \o <<EmDash>> \o <<" ", "i", "n", "v", "a", "l", "i", "d", " ", "o", "r", " ",
      "u", "n", "r", "e", "a", "d", "a", "b", "l", "e", " ", "P", "D", "F">>

EMPTY_PDF_NAME == <<"C", "o", "u", "l", "d", " ", "n", "o", "t", " ", "p", "a", "r", "s", "e",
                    " ">> \o <<EmDash>> \o <<" ", "e", "m", "p", "t", "y", " ", "P", "D", "F">>

\* page.extract_text() returning None
NoText == <<"None">>

\* extract_text: raises unless the bytes start with %PDF, pdfplumber can open
\* them and there is a page; else the page texts joined by newlines
extract_text(file_bytes) ==
    IF ~file_bytes.magic \/ ~file_bytes.readable \/ Len(file_bytes.pages) = 0
    THEN [raised |-> TRUE, text |-> <<>>]
    ELSE [raised |-> FALSE,
          text |-> Join(<<"\n">>,
                        [k \in DOMAIN file_bytes.pages |->
                            IF file_bytes.pages[k] = NoText THEN <<>>
                            ELSE file_bytes.pages[k]])]

\* the first entity text with the label, stripped; "" when all are blank
RECURSIVE FirstEnt(_, _)
FirstEnt(ents, label) ==
    IF ents = <<>> THEN <<>>
    ELSE IF Head(ents).label = label /\ Strip(Head(ents).text) # <<>>
    THEN Strip(Head(ents).text)
    ELSE FirstEnt(Tail(ents), label)

\* a or b
Or(a, b) == IF a # <<>> THEN a ELSE b

\* build_profile_from_model without the EMPTY_PROFILE defaults
build_profile_from_model_NoDefaults(ents, text) ==
    Bind(build_profile_from_text(text),
         LAMBDA heuristics :
            [name |-> Or(FirstEnt(ents, "NAME"), heuristics.name),
             email |-> Or(FirstEnt(ents, "EMAIL"), heuristics.email),
             phone |-> Or(FirstEnt(ents, "PHONE"), heuristics.phone),
             location |-> Or(FirstEnt(ents, "LOCATION"), heuristics.location),
             skills |-> Or(SortedStrings({Strip(ents[k].text) :
                                          k \in {i \in DOMAIN ents : ents[i].label = "SKILL"}}),
                           heuristics.skills),
             experience_years |-> heuristics.experience_years,
             education |-> heuristics.education,
             previous_roles |-> heuristics.previous_roles])

\* build_profile_from_model
build_profile_from_model(ents, text) ==
    Bind(build_profile_from_text(text),
         LAMBDA heuristics :
            Overlay(EMPTY_PROFILE,
                [name |-> Or(FirstEnt(ents, "NAME"), heuristics.name),
                 email |-> Or(FirstEnt(ents, "EMAIL"), heuristics.email),
                 phone |-> Or(FirstEnt(ents, "PHONE"), heuristics.phone),
                 location |-> Or(FirstEnt(ents, "LOCATION"), heuristics.location),
                 skills |-> Or(SortedStrings({Strip(ents[k].text) :
                                              k \in {i \in DOMAIN ents : ents[i].label = "SKILL"}}),
                               heuristics.skills),
                 experience_years |-> heuristics.experience_years,
                 education |-> heuristics.education,
                 previous_roles |-> heuristics.previous_roles]))

\* parse_resume: the path taken and the profile returned.  nlp.mode is
\* "unavailable" (_get_model returns None), "raises" (nlp(raw_text) raises) or
\* "ok" (doc.ents = nlp.ents)
parse_resume(file_bytes, nlp) ==
    Bind(extract_text(file_bytes),
         LAMBDA raw :
            IF raw.raised
            THEN [path |-> "extract_failed",
                  profile |-> Overlay(EMPTY_PROFILE, [name |-> INVALID_PDF_NAME])]
            ELSE IF Strip(raw.text) = <<>>
            THEN [path |-> "empty",
                  profile |-> Overlay(EMPTY_PROFILE, [name |-> EMPTY_PDF_NAME])]
            ELSE IF nlp.mode = "ok"
            THEN [path |-> "model", profile |-> build_profile_from_model(nlp.ents, raw.text)]
            ELSE [path |-> "heuristic", profile |-> build_profile_from_text(raw.text)])

\* the resumes of the model: up to MaxPages pages, each one line of text
MaxPages == 2

PageTexts ==
    {NoText, <<" ", " ">>, <<"A", "n", "n", " ", "L", "e", "e">>,
     <<"a", "@", "b", ".", "c", "o">>, <<"E", "d", "u", "c", "a", "t", "i", "o", "n">>,
     <<"B", "S", "c", ",", " ", "5", " ", "y", "e", "a", "r", "s", " ", "P", "y", "t", "h", "o", "n">>,
     <<"l", "i", "n", "k", "e", "d", "i", "n", ".", "c", "o", "m", "/", "i", "n", "/", "a", "n", "n">>}

Resumes ==
    {[magic |-> FALSE, readable |-> FALSE, pages |-> <<>>],
     [magic |-> TRUE, readable |-> FALSE, pages |-> <<>>]}
        \cup {[magic |-> TRUE, readable |-> TRUE, pages |-> p] : p \in SeqsUpTo(PageTexts, MaxPages)}

EntityModels ==
    {[mode |-> "unavailable", ents |-> <<>>], [mode |-> "raises", ents |-> <<>>],
     [mode |-> "ok", ents |-> <<>>],
     [mode |-> "ok", ents |-> <<[label |-> "NAME", text |-> <<" ">>],
                                [label |-> "NAME", text |-> <<"B", "o", " ", "L", "i", " ">>],
                                [label |-> "ORG", text |-> <<"A", "c", "m", "e">>]>>],
     [mode |-> "ok", ents |-> <<[label |-> "SKILL", text |-> <<"G", "o">>],
                                [label |-> "LOCATION", text |-> <<"P", "u", "n", "e">>],
                                [label |-> "SKILL", text |-> <<"C">>],
                                [label |-> "SKILL", text |-> <<"G", "o">>]>>]}

InitParser ==
    /\ prFile \in Resumes
    /\ prNlp \in EntityModels
    /\ prPc = "called"
    /\ prProfile = [name |-> <<>>]
    /\ IdleExcept("parser")

ParseResume ==
    /\ prPc = "called"
    /\ \E r \in {parse_resume(prFile, prNlp)} :
          /\ prPc' = r.path
          /\ prProfile' = r.profile
    /\ UNCHANGED <<prFile, prNlp>>

NextParser == ParseResume /\ Frame("parser")

SpecParser == InitParser /\ [][NextParser]_vars

\* the type of value EMPTY_PROFILE gives a key: "int", "list" or "str"
TypeOfKey(key) ==
    CASE key = "experience_years" -> "int"
      [] key \in {"skills", "previous_roles"} -> "list"
      [] OTHER -> "str"

\* a value of that type
HasType(value, type) ==
    IF type = "int" THEN value \in Nat
    ELSE /\ DOMAIN value = 1..Len(value)
         /\ \A k \in DOMAIN value :
               IF type = "list" THEN DOMAIN value[k] = 1..Len(value[k])
               ELSE value[k] \in STRING

\* C11: every profile parse_resume returns has exactly the keys of
\* EMPTY_PROFILE, each with a value of the default's type; on the two failure
\* paths every field but name holds its default, and on the entity-model path
\* linkedin and github, which that path never sets, hold theirs
C11_ProfileHasEveryKey ==
    prPc \in {"extract_failed", "empty", "model", "heuristic"} =>
        /\ DOMAIN prProfile = DOMAIN EMPTY_PROFILE
        /\ \A key \in DOMAIN EMPTY_PROFILE : HasType(prProfile[key], TypeOfKey(key))
        /\ prPc = "extract_failed" => prProfile = [EMPTY_PROFILE EXCEPT !.name = INVALID_PDF_NAME]
        /\ prPc = "empty" => prProfile = [EMPTY_PROFILE EXCEPT !.name = EMPTY_PDF_NAME]
        /\ prPc = "model" =>
              prProfile.linkedin = EMPTY_PROFILE.linkedin /\ prProfile.github = EMPTY_PROFILE.github
        /\ (prPc = "heuristic" /\ prFile.pages = <<<<"A", "n", "n", " ", "L", "e", "e">>>>) =>
              prProfile = [EMPTY_PROFILE EXCEPT !.name = <<"A", "n", "n", " ", "L", "e", "e">>]

\* the entity-model path has returned a profile whose name the model found
\* and whose skills the heuristics found
C11_Witness ==
    /\ prPc = "model"
    /\ prProfile.name = <<"B", "o", " ", "L", "i">>
    /\ prProfile.skills = <<<<"P", "y", "t", "h", "o", "n">>>>
    /\ prProfile.experience_years = 5

(***************************************************************************)
(* app.py, modules/scheduler.py, database.py: request threads, crawl runs, *)
(* the jobs table and the JobDeduplicator instances                        *)
(***************************************************************************)
\* requests served in a run of the model: crawl runs and POSTs together
MaxRequests == 3

Threads == {"t1", "t2"}
NoThread == "none"

\* the thread of the bootstrap block
MainThread == "main"

\* _build_job_dict: a scraped job carries its content_hash
Scraped(job) ==
    Overlay(job, [content_hash |-> compute_hash(Get(job, "title"), Get(job, "company"),
                                                Get(job, "location"))])

\* what scrape_career_page returns for the target page
ScrapedPages ==
    {<<Scraped(JobBase)>>, <<Scraped(JobOther), Scraped(JobCased)>>}

\* the JSON bodies posted to /api/jobs/add
PostBodies ==
    {[title |-> <<"a", "b">>, company |-> <<"b", "a">>, location |-> <<"a", "a">>],
     [title |-> <<"A", "B", " ">>, company |-> <<"b", "a">>, location |-> <<"a", "a">>],
     [title |-> <<"e", "e">>, company |-> <<"e", "a">>],
     [title |-> <<"a", "b">>]}

\* the row save_job binds for a job
RowOf(job) ==
    [title |-> Get(job, "title"), company |-> Get(job, "company"),
     location |-> Get(job, "location"), description |-> Get(job, "description"),
     content_hash |-> Get(job, "content_hash")]

RowHashes(rows) == {rows[k].content_hash : k \in DOMAIN rows}

\* INSERT INTO jobs without the UNIQUE constraint on content_hash
InsertJob_NoUnique(rows, job) == [integrity |-> FALSE, row |-> RowOf(job)]

\* INSERT INTO jobs: sqlite3.IntegrityError when content_hash is in the table
InsertJob(rows, job) ==
    [integrity |-> Get(job, "content_hash") \in RowHashes(rows), row |-> RowOf(job)]

\* the process-wide _deduper handed to every crawl run
RunDeduper_Shared(run) == 0

\* deduper = JobDeduplicator() in _run_crawl_job: instance 0 is app._deduper,
\* the run-th crawl run creates instance run
RunDeduper(run) == run

IdleThread ==
    [kind |-> "idle", pc |-> "idle", job |-> NoJob, queue |-> <<>>, existing |-> <<>>,
     index |-> 0]

InitServer ==
    /\ svBoot = "init"
    /\ svRows = <<>>
    /\ svLock = NoThread
    /\ svIndex = [i \in 0..MaxRequests |-> NewDeduplicator]
    /\ svBusy = [i \in 0..MaxRequests |-> {}]
    /\ svThread = [t \in Threads |-> IdleThread]
    /\ svRuns = 0
    /\ svPosts = 0
    /\ svLog = {}
    /\ IdleExcept("server")

\* app.py l.283-285: _deduper.load_existing_jobs(existing_jobs) is entered
BootLoad ==
    /\ svBoot = "init"
    /\ svBoot' = "loading"
    /\ svBusy' = [svBusy EXCEPT ![0] = @ \cup {MainThread}]
    /\ UNCHANGED <<svRows, svLock, svIndex, svThread, svRuns, svPosts, svLog>>

\* ... and returns; start_scheduler and app.run follow (l.288-291)
BootServe ==
    /\ svBoot = "loading"
    /\ \E l \in {load_existing_jobs(svIndex[0], svRows)} :
          /\ svIndex' = [svIndex EXCEPT ![0] = l.self]
          /\ svBoot' = IF l.raised THEN "crashed" ELSE "serving"
    /\ svBusy' = [svBusy EXCEPT ![0] = @ \ {MainThread}]
    /\ UNCHANGED <<svRows, svLock, svThread, svRuns, svPosts, svLog>>

\* _run_crawl_job up to the call of load_existing_jobs, started by the
\* scheduler (one scheduled run at a time) or by POST /api/jobs/crawl
StartCrawl(t, kind, page) ==
    /\ svBoot = "serving"
    /\ svThread[t].pc = "idle"
    /\ svRuns + svPosts < MaxRequests
    /\ kind = "scheduled" => \A u \in Threads : svThread[u].kind # "scheduled"
    /\ svRuns' = svRuns + 1
    /\ \E i \in {RunDeduper(svRuns + 1)} :
          /\ svThread' = [svThread EXCEPT ![t] =
                [kind |-> kind, pc |-> "loading", job |-> NoJob, queue |-> page,
                 existing |-> svRows, index |-> i]]
          /\ svBusy' = [svBusy EXCEPT ![i] = @ \cup {t}]
    /\ UNCHANGED <<svBoot, svRows, svLock, svIndex, svPosts, svLog>>

\* the end of a crawl run, by return or by the except clause
EndCrawl(t) == [svThread EXCEPT ![t] = IdleThread]

\* deduper.load_existing_jobs(existing) returns or raises
CrawlLoaded(t) ==
    /\ svThread[t].pc = "loading"
    /\ \E l \in {load_existing_jobs(svIndex[svThread[t].index], svThread[t].existing)} :
          /\ svIndex' = [svIndex EXCEPT ![svThread[t].index] = l.self]
          /\ svThread' = IF l.raised THEN EndCrawl(t)
                         ELSE [svThread EXCEPT ![t].pc = "next", ![t].existing = <<>>]
    /\ svBusy' = [svBusy EXCEPT ![svThread[t].index] = @ \ {t}]
    /\ UNCHANGED <<svBoot, svRows, svLock, svRuns, svPosts, svLog>>

\* the loop over raw_jobs: deduper.add_job(job) is entered, or the run ends
CrawlNext(t) ==
    /\ svThread[t].pc = "next"
    /\ IF svThread[t].queue = <<>>
       THEN svThread' = EndCrawl(t) /\ UNCHANGED svBusy
       ELSE /\ svThread' = [svThread EXCEPT ![t].pc = "adding",
                                            ![t].job = Head(svThread[t].queue),
                                            ![t].queue = Tail(svThread[t].queue)]
            /\ svBusy' = [svBusy EXCEPT ![svThread[t].index] = @ \cup {t}]
    /\ UNCHANGED <<svBoot, svRows, svLock, svIndex, svRuns, svPosts, svLog>>

\* deduper.add_job(job) returns or raises
CrawlAdded(t) ==
    /\ svThread[t].pc = "adding"
    /\ \E a \in {add_job(svIndex[svThread[t].index], svThread[t].job)} :
          /\ svIndex' = [svIndex EXCEPT ![svThread[t].index] = a.self]
          /\ svThread' = IF a.raised THEN EndCrawl(t)
                         ELSE [svThread EXCEPT ![t].pc = IF a.ret THEN "insert" ELSE "next"]
    /\ svBusy' = [svBusy EXCEPT ![svThread[t].index] = @ \ {t}]
    /\ UNCHANGED <<svBoot, svRows, svLock, svRuns, svPosts, svLog>>

\* add_job_manually up to the call of db.save_job: 422 without title or
\* company, else the content hash is computed from the posted strings
PostJob(t, data) ==
    /\ svBoot = "serving"
    /\ svThread[t].pc = "idle"
    /\ svRuns + svPosts < MaxRequests
    /\ svPosts' = svPosts + 1
    /\ IF Get(data, "title") = <<>> \/ Get(data, "company") = <<>>
       THEN /\ svLog' = svLog \cup {[hash |-> <<>>, status |-> 422]}
            /\ UNCHANGED svThread
       ELSE /\ svThread' = [svThread EXCEPT ![t] =
                  [IdleThread EXCEPT !.kind = "post", !.pc = "insert",
                                     !.job = Scraped(data)]]
            /\ UNCHANGED svLog
    /\ UNCHANGED <<svBoot, svRows, svLock, svIndex, svBusy, svRuns>>

\* the caller of save_job goes on with its result: the crawl loop with the
\* next job, add_job_manually with 201 or 409
Returned(t, ret) ==
    IF svThread[t].kind = "post"
    THEN /\ svLog' = svLog \cup {[hash |-> svThread[t].job.content_hash,
                                  status |-> IF ret THEN 201 ELSE 409]}
         /\ svThread' = [svThread EXCEPT ![t] = IdleThread]
    ELSE /\ svThread' = [svThread EXCEPT ![t].pc = "next"]
         /\ UNCHANGED svLog

\* save_job: cursor.execute(INSERT ...) once no other connection holds the
\* write transaction; IntegrityError returns False after conn.close()
SaveExecute(t) ==
    /\ svThread[t].pc = "insert"
    /\ svLock = NoThread
    /\ \E r \in {InsertJob(svRows, svThread[t].job)} :
          IF r.integrity
          THEN Returned(t, FALSE) /\ UNCHANGED svLock
          ELSE /\ svThread' = [svThread EXCEPT ![t].pc = "commit"]
               /\ svLock' = t
               /\ UNCHANGED svLog
    /\ UNCHANGED <<svBoot, svRows, svIndex, svBusy, svRuns, svPosts>>

\* save_job: conn.commit(); return True
SaveCommit(t) ==
    /\ svThread[t].pc = "commit"
    /\ svRows' = Append(svRows, RowOf(svThread[t].job))
    /\ svLock' = NoThread
    /\ Returned(t, TRUE)
    /\ UNCHANGED <<svBoot, svIndex, svBusy, svRuns, svPosts>>

NextServer ==
    \/ BootLoad /\ Frame("server")
    \/ BootServe /\ Frame("server")
    \/ \E t \in Threads, kind \in {"scheduled", "manual"}, page \in ScrapedPages :
          StartCrawl(t, kind, page) /\ Frame("server")
    \/ \E t \in Threads : CrawlLoaded(t) /\ Frame("server")
    \/ \E t \in Threads : CrawlNext(t) /\ Frame("server")
    \/ \E t \in Threads : CrawlAdded(t) /\ Frame("server")
    \/ \E t \in Threads, data \in PostBodies : PostJob(t, data) /\ Frame("server")
    \/ \E t \in Threads : SaveExecute(t) /\ Frame("server")
    \/ \E t \in Threads : SaveCommit(t) /\ Frame("server")

SpecServer == InitServer /\ [][NextServer]_vars


\* save_job has returned ret to thread t in this step: add_job_manually
\* answers 201 for True and 409 for False, the crawl loop goes on
SaveReturns(t, ret) ==
    IF svThread[t].kind = "post"
    THEN /\ svThread'[t] = IdleThread
         /\ svLog' = svLog \cup {[hash |-> svThread[t].job.content_hash,
                                  status |-> IF ret THEN 201 ELSE 409]}
    ELSE svThread'[t].pc = "next" /\ svLog' = svLog

\* C13: the jobs table never holds two rows with one content_hash; a save of a
\* hash that is not in the table stores its row and returns True, a save of a
\* hash that is in the table returns False and stores nothing, under every
\* interleaving of POSTs and crawl runs; a hash answered with 201 is in the
\* table, so every later POST of the same title, company and location is
\* answered with 409
C13_OneRowPerContentHash ==
    /\ [](\A i, j \in DOMAIN svRows :
             svRows[i].content_hash = svRows[j].content_hash => i = j)
    /\ [](\A e \in svLog : e.status = 201 => e.hash \in RowHashes(svRows))
    /\ [][\A t \in Threads :
            /\ (svThread[t].pc = "insert" /\ svThread'[t] # svThread[t]) =>
                  IF svThread[t].job.content_hash \in RowHashes(svRows)
                  THEN svRows' = svRows /\ SaveReturns(t, FALSE)
                  ELSE svRows' = svRows /\ svThread'[t].pc = "commit"
            /\ (svThread[t].pc = "commit" /\ svThread'[t] # svThread[t]) =>
                  /\ svThread[t].job.content_hash \notin RowHashes(svRows)
                  /\ svRows' = Append(svRows, RowOf(svThread[t].job))
                  /\ SaveReturns(t, TRUE)
            /\ (svThread[t].pc \notin {"insert", "commit"} /\ svThread'[t] # svThread[t]) =>
                  svRows' = svRows]_vars

\* a POST has been answered 201 and a later POST of the same strings up to
\* case and padding 409, and a crawl run has handled the same job as scraped
\* without a second row appearing
C13_Witness ==
    /\ [hash |-> JobHash(JobBase), status |-> 201] \in svLog
    /\ [hash |-> JobHash(JobBase), status |-> 409] \in svLog
    /\ \E t \in Threads :
          /\ svThread[t].kind \in {"scheduled", "manual"}
          /\ svThread[t].pc = "next"
          /\ svThread[t].job = Scraped(JobBase)
    /\ Len(svRows) = 1

\* C19: no JobDeduplicator instance has two threads inside a mutating call
\* (load_existing_jobs with its rebuild, add_job) at once: the threads of the
\* crawl runs in progress hold pairwise different instances, none of them
\* the process-wide one, which only the bootstrap block enters, before any
\* request or crawl thread runs
C19_OneMutatorPerIndex ==
    /\ \A i \in DOMAIN svBusy : Cardinality(svBusy[i]) <= 1
    /\ svBusy[0] \subseteq {MainThread}
    /\ svBusy[0] # {} => \A t \in Threads : svThread[t] = IdleThread
    /\ \A t, u \in Threads :
          (t # u /\ svThread[t].kind \in {"scheduled", "manual"}
                 /\ svThread[u].kind \in {"scheduled", "manual"}) =>
              /\ svThread[t].index # svThread[u].index
              /\ svThread[t].index # 0

\* a scheduled and a manually triggered crawl run are inside add_job at the
\* same time, each on its own instance
C19_Witness ==
    \E t, u \in Threads :
        /\ svThread[t].kind = "scheduled" /\ svThread[t].pc = "adding"
        /\ svThread[u].kind = "manual" /\ svThread[u].pc = "adding"
        /\ svBusy[svThread[t].index] = {t}
        /\ svBusy[svThread[u].index] = {u}


\* C21: when extract_text raises, parse_resume hands a failure to its caller
\* and returns no profile
C21_ExtractionFailurePropagates ==
    (prPc # "called" /\ extract_text(prFile).raised) =>
        /\ prPc = "raised"
        /\ prProfile = [name |-> <<>>]


\* the entities hold no PERSON span of two to five words
NoPersonSpan(ents) ==
    \A k \in DOMAIN ents :
        ~(ents[k].label = "PERSON" /\ WordCount(ents[k].text) >= 2
                                  /\ WordCount(ents[k].text) <= 5)

\* C22: when the entity model is unavailable, raises during inference or
\* returns no PERSON span of two to five words, parse_resume returns what the
\* heuristic-only path returns for the same file
C22_WithoutEntitiesTheHeuristicResult ==
    (prPc # "called" /\ (prNlp.mode # "ok" \/ NoPersonSpan(prNlp.ents))) =>
        prProfile = parse_resume(prFile, [mode |-> "unavailable", ents |-> <<>>]).profile


(***************************************************************************)
(* Malformed job records offered to one index: records in which a subset   *)
(* of title, company, location, description and content_hash is missing    *)
(***************************************************************************)
JobFields == {"title", "company", "location", "description", "content_hash"}

\* the k-th complete record
WholeJob(k) ==
    [title |-> <<"t">> \o TwoDigits(k), company |-> <<"c", "o">>, location |-> <<"p", "u",
                                                            "n", "e">>,
     description |-> <<"t", "h", "e">>, content_hash |-> <<"h">> \o TwoDigits(k)]

\* the k-th record with only the fields in present
PartialJob(k, present) == [f \in present |-> WholeJob(k)[f]]

\* the record with every missing field set to the empty string
Filled(job) == [f \in JobFields |-> Get(job, f)]

\* the first record added has any subset of the fields and the records added
\* after it a content_hash only; the records looked up carry a content_hash
\* and, at most, a description of stop words
LaterFields == {{"content_hash"}, {"content_hash", "description"}}

\* deduper.add_job(job) for the next malformed record
MalformedAdd(k, present) ==
    /\ call.op \in {"init", "add_job", "is_duplicate"}
    /\ ~call.raised
    /\ k = Len(corpus) + 1
    /\ k > 1 => present = {"content_hash"}
    /\ \E a \in {add_job(Self, PartialJob(k, present))} :
          /\ Len(a.self.corpus) <= MaxIndexed
          /\ SetSelf(a.self)
          /\ call' = [op |-> "add_job", job |-> PartialJob(k, present), ret |-> a.ret,
                      raised |-> a.raised, failed |-> a.check.failed,
                      stale |-> a.check.stale]

\* deduper.is_duplicate(job) for a malformed record
MalformedCheck(k, present) ==
    /\ call.op = "add_job"
    /\ ~call.raised
    /\ k = Len(corpus) + 1
    /\ present \in LaterFields
    /\ \E d \in {is_duplicate(Self, PartialJob(k, present))} :
          /\ SetSelf(d.self)
          /\ call' = [op |-> "is_duplicate", job |-> PartialJob(k, present), ret |-> d.ret,
                      raised |-> FALSE, failed |-> d.failed, stale |-> d.stale]

InitMalformed == InitDedup

NextMalformed ==
    \/ \E k \in 1..MaxIndexed, present \in SUBSET JobFields :
          MalformedAdd(k, present) /\ Frame("dedup")
    \/ \E k \in 1..MaxIndexed, present \in SUBSET JobFields :
          MalformedCheck(k, present) /\ Frame("dedup")

SpecMalformed == InitMalformed /\ [][NextMalformed]_vars

\* C23: is_duplicate and add_job on a record with missing fields do not
\* raise, and leave the index as the same call does on the record with each
\* missing field set to the empty string
C23_MissingFieldsNeverRaise ==
    [][call'.op \in {"add_job", "is_duplicate"} =>
          /\ ~call'.raised
          /\ call'.op = "add_job" =>
                /\ call'.ret = add_job(Self, Filled(call'.job)).ret
                /\ hashes' = add_job(Self, Filled(call'.job)).self.hashes
                /\ corpus' = add_job(Self, Filled(call'.job)).self.corpus
          /\ call'.op = "is_duplicate" =>
                call'.ret = is_duplicate(Self, Filled(call'.job)).ret]_vars

(***************************************************************************)
(* modules/job_classifier.py                                               *)
(***************************************************************************)
\* config.JOB_CATEGORIES
JOB_CATEGORIES ==
    <<"Information Technology",
      "Engineering",
      "Healthcare",
      "Education",
      "Finance & Accounting",
      "Marketing & Communications",
      "Administration",
      "Construction & Trades",
      "Agriculture",
      "Other">>

\* CATEGORY_KEYWORDS, in the iteration order of the dict
CATEGORY_KEYWORDS ==
    <<[category |-> "Information Technology",
       keywords |->
          <<<<"s", "o", "f", "t", "w", "a", "r", "e">>,
            <<"d", "e", "v", "e", "l", "o", "p", "e", "r">>,
            <<"e", "n", "g", "i", "n", "e", "e", "r">>,
            <<"p", "r", "o", "g", "r", "a", "m", "m", "e", "r">>,
            <<"p", "y", "t", "h", "o", "n">>,
            <<"j", "a", "v", "a">>,
            <<"j", "a", "v", "a", "s", "c", "r", "i", "p", "t">>,
            <<"b", "a", "c", "k", "e", "n", "d">>,
            <<"f", "r", "o", "n", "t", "e", "n", "d">>,
            <<"f", "u", "l", "l", "s", "t", "a", "c", "k">>,
            <<"d", "e", "v", "o", "p", "s">>,
            <<"c", "l", "o", "u", "d">>,
            <<"a", "w", "s">>,
            <<"a", "z", "u", "r", "e">>,
            <<"d", "a", "t", "a", "b", "a", "s", "e">>,
            <<"s", "q", "l">>,
            <<"a", "p", "i">>,
            <<"c", "y", "b", "e", "r", "s", "e", "c", "u", "r", "i", "t", "y">>,
            <<"n", "e", "t", "w", "o", "r", "k">>,
            <<"s", "y", "s", "t", "e", "m", " ", "a", "d", "m", "i", "n", "i", "s", "t", "r", "a", "t", "o", "r">>,
            <<"i", "t", " ", "s", "u", "p", "p", "o", "r", "t">>,
            <<"d", "a", "t", "a", " ", "s", "c", "i", "e", "n", "c", "e">>,
            <<"m", "a", "c", "h", "i", "n", "e", " ", "l", "e", "a", "r", "n", "i", "n", "g">>,
            <<"a", "r", "t", "i", "f", "i", "c", "i", "a", "l", " ", "i", "n", "t", "e", "l", "l", "i", "g", "e", "n", "c", "e">>,
            <<"i", "o", "s">>,
            <<"a", "n", "d", "r", "o", "i", "d">>,
            <<"m", "o", "b", "i", "l", "e">>,
            <<"w", "e", "b", " ", "d", "e", "v", "e", "l", "o", "p", "e", "r">>>>],
      [category |-> "Engineering",
       keywords |->
          <<<<"c", "i", "v", "i", "l", " ", "e", "n", "g", "i", "n", "e", "e", "r">>,
            <<"m", "e", "c", "h", "a", "n", "i", "c", "a", "l", " ", "e", "n", "g", "i", "n", "e", "e", "r">>,
            <<"e", "l", "e", "c", "t", "r", "i", "c", "a", "l", " ", "e", "n", "g", "i", "n", "e", "e", "r">>,
            <<"s", "t", "r", "u", "c", "t", "u", "r", "a", "l">>,
            <<"g", "e", "o", "t", "e", "c", "h", "n", "i", "c", "a", "l">>,
            <<"c", "o", "n", "s", "t", "r", "u", "c", "t", "i", "o", "n">>,
            <<"a", "u", "t", "o", "c", "a", "d">>,
            <<"s", "o", "l", "i", "d", "w", "o", "r", "k", "s">>,
            <<"p", "r", "o", "j", "e", "c", "t", " ", "e", "n", "g", "i", "n", "e", "e", "r">>,
            <<"s", "i", "t", "e", " ", "e", "n", "g", "i", "n", "e", "e", "r">>,
            <<"p", "i", "p", "i", "n", "g">>,
            <<"h", "v", "a", "c">>,
            <<"s", "u", "r", "v", "e", "y", "o", "r">>,
            <<"q", "u", "a", "n", "t", "i", "t", "y", " ", "s", "u", "r", "v", "e", "y", "o", "r">>,
            <<"m", "a", "t", "e", "r", "i", "a", "l", " ", "e", "n", "g", "i", "n", "e", "e", "r">>>>],
      [category |-> "Healthcare",
       keywords |->
          <<<<"n", "u", "r", "s", "e">>,
            <<"d", "o", "c", "t", "o", "r">>,
            <<"p", "h", "y", "s", "i", "c", "i", "a", "n">>,
            <<"p", "h", "a", "r", "m", "a", "c", "i", "s", "t">>,
            <<"m", "e", "d", "i", "c", "a", "l">>,
            <<"c", "l", "i", "n", "i", "c", "a", "l">>,
            <<"h", "o", "s", "p", "i", "t", "a", "l">>,
            <<"h", "e", "a", "l", "t", "h", "c", "a", "r", "e">>,
            <<"p", "a", "t", "i", "e", "n", "t">>,
            <<"s", "u", "r", "g", "e", "r", "y">>,
            <<"d", "i", "a", "g", "n", "o", "s", "i", "s">>,
            <<"l", "a", "b">>,
            <<"r", "a", "d", "i", "o", "l", "o", "g", "i", "s", "t">>,
            <<"d", "e", "n", "t", "i", "s", "t">>,
            <<"t", "h", "e", "r", "a", "p", "i", "s", "t">>,
            <<"m", "i", "d", "w", "i", "f", "e">>,
            <<"h", "e", "a", "l", "t", "h", " ", "o", "f", "f", "i", "c", "e", "r">>,
            <<"p", "u", "b", "l", "i", "c", " ", "h", "e", "a", "l", "t", "h">>,
            <<"n", "u", "t", "r", "i", "t", "i", "o", "n">>>>],
      [category |-> "Education",
       keywords |->
          <<<<"t", "e", "a", "c", "h", "e", "r">>,
            <<"l", "e", "c", "t", "u", "r", "e", "r">>,
            <<"p", "r", "o", "f", "e", "s", "s", "o", "r">>,
            <<"t", "u", "t", "o", "r">>,
            <<"i", "n", "s", "t", "r", "u", "c", "t", "o", "r">>,
            <<"c", "u", "r", "r", "i", "c", "u", "l", "u", "m">>,
            <<"s", "c", "h", "o", "o", "l">>,
            <<"u", "n", "i", "v", "e", "r", "s", "i", "t", "y">>,
            <<"c", "o", "l", "l", "e", "g", "e">>,
            <<"e", "d", "u", "c", "a", "t", "i", "o", "n">>,
            <<"t", "r", "a", "i", "n", "i", "n", "g">>,
            <<"t", "r", "a", "i", "n", "e", "r">>,
            <<"e", "-", "l", "e", "a", "r", "n", "i", "n", "g">>,
            <<"a", "c", "a", "d", "e", "m", "i", "c">>,
            <<"p", "e", "d", "a", "g", "o", "g", "y">>>>],
      [category |-> "Finance & Accounting",
       keywords |->
          <<<<"a", "c", "c", "o", "u", "n", "t", "a", "n", "t">>,
            <<"a", "u", "d", "i", "t", "o", "r">>,
            <<"f", "i", "n", "a", "n", "c", "e">>,
            <<"f", "i", "n", "a", "n", "c", "i", "a", "l", " ", "a", "n", "a", "l", "y", "s", "t">>,
            <<"t", "r", "e", "a", "s", "u", "r", "e", "r">>,
            <<"b", "u", "d", "g", "e", "t">>,
            <<"t", "a", "x">>,
            <<"b", "o", "o", "k", "k", "e", "e", "p", "e", "r">>,
            <<"c", "p", "a">>,
            <<"c", "f", "a">>,
            <<"b", "a", "n", "k", "i", "n", "g">>,
            <<"i", "n", "v", "e", "s", "t", "m", "e", "n", "t">>,
            <<"r", "i", "s", "k", " ", "m", "a", "n", "a", "g", "e", "m", "e", "n", "t">>,
            <<"c", "o", "m", "p", "l", "i", "a", "n", "c", "e">>,
            <<"p", "a", "y", "r", "o", "l", "l">>>>],
      [category |-> "Marketing & Communications",
       keywords |->
          <<<<"m", "a", "r", "k", "e", "t", "i", "n", "g">>,
            <<"b", "r", "a", "n", "d">>,
            <<"s", "o", "c", "i", "a", "l", " ", "m", "e", "d", "i", "a">>,
            <<"c", "o", "n", "t", "e", "n", "t">>,
            <<"c", "o", "p", "y", "w", "r", "i", "t", "e", "r">>,
            <<"s", "e", "o">>,
            <<"d", "i", "g", "i", "t", "a", "l", " ", "m", "a", "r", "k", "e", "t", "i", "n", "g">>,
            <<"p", "u", "b", "l", "i", "c", " ", "r", "e", "l", "a", "t", "i", "o", "n", "s">>,
            <<"c", "o", "m", "m", "u", "n", "i", "c", "a", "t", "i", "o", "n", "s">>,
            <<"a", "d", "v", "e", "r", "t", "i", "s", "i", "n", "g">>,
            <<"c", "a", "m", "p", "a", "i", "g", "n">>,
            <<"m", "e", "d", "i", "a">>,
            <<"j", "o", "u", "r", "n", "a", "l", "i", "s", "t">>,
            <<"e", "d", "i", "t", "o", "r">>>>],
      [category |-> "Administration",
       keywords |->
          <<<<"a", "d", "m", "i", "n", "i", "s", "t", "r", "a", "t", "i", "v", "e">>,
            <<"o", "f", "f", "i", "c", "e", " ", "m", "a", "n", "a", "g", "e", "r">>,
            <<"r", "e", "c", "e", "p", "t", "i", "o", "n", "i", "s", "t">>,
            <<"s", "e", "c", "r", "e", "t", "a", "r", "y">>,
            <<"e", "x", "e", "c", "u", "t", "i", "v", "e", " ", "a", "s", "s", "i", "s", "t", "a", "n", "t">>,
            <<"d", "a", "t", "a", " ", "e", "n", "t", "r", "y">>,
            <<"r", "e", "c", "o", "r", "d", "s">>,
            <<"c", "o", "o", "r", "d", "i", "n", "a", "t", "o", "r">>,
            <<"l", "o", "g", "i", "s", "t", "i", "c", "s">>,
            <<"o", "p", "e", "r", "a", "t", "i", "o", "n", "s">>,
            <<"p", "r", "o", "c", "u", "r", "e", "m", "e", "n", "t">>,
            <<"h", "r">>,
            <<"h", "u", "m", "a", "n", " ", "r", "e", "s", "o", "u", "r", "c", "e">>,
            <<"r", "e", "c", "r", "u", "i", "t", "m", "e", "n", "t">>>>],
      [category |-> "Construction & Trades",
       keywords |->
          <<<<"c", "a", "r", "p", "e", "n", "t", "e", "r">>,
            <<"e", "l", "e", "c", "t", "r", "i", "c", "i", "a", "n">>,
            <<"p", "l", "u", "m", "b", "e", "r">>,
            <<"w", "e", "l", "d", "e", "r">>,
            <<"m", "a", "s", "o", "n">>,
            <<"c", "o", "n", "s", "t", "r", "u", "c", "t", "i", "o", "n", " ", "w", "o", "r", "k", "e", "r">>,
            <<"f", "o", "r", "e", "m", "a", "n">>,
            <<"t", "e", "c", "h", "n", "i", "c", "i", "a", "n">>,
            <<"m", "a", "i", "n", "t", "e", "n", "a", "n", "c", "e">>,
            <<"m", "e", "c", "h", "a", "n", "i", "c">>,
            <<"f", "i", "t", "t", "e", "r">>,
            <<"r", "i", "g", "g", "e", "r">>,
            <<"s", "c", "a", "f", "f", "o", "l", "d", "i", "n", "g">>>>],
      [category |-> "Agriculture",
       keywords |->
          <<<<"a", "g", "r", "i", "c", "u", "l", "t", "u", "r", "e">>,
            <<"f", "a", "r", "m">>,
            <<"a", "g", "r", "i">>,
            <<"c", "r", "o", "p", "s">>,
            <<"l", "i", "v", "e", "s", "t", "o", "c", "k">>,
            <<"f", "i", "s", "h", "e", "r", "i", "e", "s">>,
            <<"h", "o", "r", "t", "i", "c", "u", "l", "t", "u", "r", "e">>,
            <<"a", "g", "r", "o", "n", "o", "m", "i", "s", "t">>,
            <<"p", "l", "a", "n", "t", "a", "t", "i", "o", "n">>,
            <<"f", "o", "r", "e", "s", "t", "r", "y">>,
            <<"v", "e", "t", "e", "r", "i", "n", "a", "r", "y">>>>]>>


\* sum(1 for kw in keywords if kw in text)
KeywordScore(keywords, text) ==
    Cardinality({k \in DOMAIN keywords : Contains(text, keywords[k])})

\* the loop of _keyword_classify taking a category that ties with the best
RECURSIVE KeywordLoop_TiesLast(_, _, _, _)
KeywordLoop_TiesLast(text, k, best_category, best_score) ==
    IF k > Len(CATEGORY_KEYWORDS) THEN best_category
    ELSE Bind(KeywordScore(CATEGORY_KEYWORDS[k].keywords, text),
              LAMBDA score :
                 IF score >= best_score /\ score > 0
                 THEN KeywordLoop_TiesLast(text, k + 1, CATEGORY_KEYWORDS[k].category, score)
                 ELSE KeywordLoop_TiesLast(text, k + 1, best_category, best_score))

keyword_classify_TiesLast(text) == KeywordLoop_TiesLast(text, 1, "Other", 0)

\* the loop of _keyword_classify from the k-th category on
RECURSIVE KeywordLoop(_, _, _, _)
KeywordLoop(text, k, best_category, best_score) ==
    IF k > Len(CATEGORY_KEYWORDS) THEN best_category
    ELSE Bind(KeywordScore(CATEGORY_KEYWORDS[k].keywords, text),
              LAMBDA score :
                 IF score > best_score
                 THEN KeywordLoop(text, k + 1, CATEGORY_KEYWORDS[k].category, score)
                 ELSE KeywordLoop(text, k + 1, best_category, best_score))

\* _keyword_classify
keyword_classify(text) == KeywordLoop(text, 1, "Other", 0)

\* what label_map.get(pred, "Other") can be for the saved model
MlPredictions == {"Healthcare", "Other"}

\* _ml_classify: the outcomes for the state of the model file.  "absent":
\* MODEL_PATH does not exist; "broken": it exists and loading or predicting
\* raises; "present": it is opened, unpickled and asked for a prediction
ml_classify(model, text) ==
    CASE model = "absent" -> {[read |-> FALSE, none |-> TRUE, category |-> ""]}
      [] model = "broken" -> {[read |-> TRUE, none |-> TRUE, category |-> ""]}
      [] OTHER -> {[read |-> TRUE, none |-> FALSE, category |-> c] : c \in MlPredictions}

\* classify_job: the outcomes, each with the path taken
classify_job(model, job) ==
    LET text == Lower(Get(job, "title") \o <<" ">> \o Get(job, "description"))
    IN  {IF ~ml.none /\ ml.category # ""
         THEN [read |-> ml.read, path |-> "ml", category |-> ml.category]
         ELSE [read |-> ml.read, path |-> "keyword", category |-> keyword_classify(text)] :
            ml \in ml_classify(model, text)}

\* the job titles of the model: up to MaxWords phrases
MaxWords == 2

TitlePhrases ==
    {<<"C", "i", "v", "i", "l", " ", "E", "n", "g", "i", "n", "e", "e", "r">>, <<"n", "u",
                                                            "r", "s", "e">>, <<"T", "e", "a",
                                                            "c", "h", "e", "r">>, <<"J", "a",
                                                            "v", "a", "S", "c", "r", "i", "p",
                                                            "t">>, <<"c", "l", "e", "r",
                                                            "k">>, <<"f", "a", "r", "m">>}

ClassifierJobs ==
    {[title |-> Join(<<" ">>, ws)] : ws \in SeqsUpTo(TitlePhrases, MaxWords)}
        \cup {[description |-> <<"T", "a", "x", " ", "a", "u", "d", "i",
                                 "t">>], [title |-> <<"N", "u", "r", "s",
                                 "e">>, description |-> <<"f", "a", "r", "m", " ", "l", "a", "b">>]}

\* classify calls made in a run of the model
MaxCalls == 2

\* the caller holds a list of two jobs, scraped from one page
InitClassifier ==
    /\ clModel \in {"absent", "broken", "present"}
    /\ clInput \in {<<[description |-> <<"T", "a", "x", " ", "a", "u", "d", "i",
                                         "t">>], job>> : job \in ClassifierJobs}
    /\ clReads = 0
    /\ clCalls = 0
    /\ clLast = [op |-> "init"]
    /\ IdleExcept("classifier")

\* classify_job(job)
ClassifyJob(job) ==
    /\ clCalls < MaxCalls
    /\ clCalls' = clCalls + 1
    /\ \E r \in classify_job(clModel, job) :
          /\ clReads' = clReads + (IF r.read THEN 1 ELSE 0)
          /\ clLast' = [op |-> "classify_job", job |-> job, path |-> r.path,
                        category |-> r.category]
    /\ UNCHANGED <<clModel, clInput>>

\* classify_batch(jobs): job["category"] is set on each job of the list
ClassifyBatch ==
    /\ clCalls + 1 < MaxCalls
    /\ clCalls' = clCalls + 2
    /\ \E r1 \in classify_job(clModel, clInput[1]), r2 \in classify_job(clModel, clInput[2]) :
          /\ clReads' = clReads + (IF r1.read THEN 1 ELSE 0) + (IF r2.read THEN 1 ELSE 0)
          /\ clInput' = <<Overlay(clInput[1], [category |-> r1.category]),
                          Overlay(clInput[2], [category |-> r2.category])>>
          /\ clLast' = [op |-> "classify_batch", job |-> clInput[2], path |-> r2.path,
                        category |-> r2.category]
    /\ UNCHANGED clModel

NextClassifier ==
    \/ \E k \in DOMAIN clInput : ClassifyJob(clInput[k]) /\ Frame("classifier")
    \/ ClassifyBatch /\ Frame("classifier")

SpecClassifier == InitClassifier /\ [][NextClassifier]_vars

\* the text classify_job hands to _keyword_classify for a job
TextOf(job) == Lower(Get(job, "title") \o <<" ">> \o Get(job, "description"))

\* the number of keywords of the k-th category that occur in the text
CountIn(k, text) ==
    Cardinality({i \in DOMAIN CATEGORY_KEYWORDS[k].keywords :
                    Contains(text, CATEGORY_KEYWORDS[k].keywords[i])})

\* C24: the keyword path returns "Other" when no keyword of any category
\* occurs in the text; otherwise the category with the highest count, and of
\* several with that count the first in table order; always a member of the
\* taxonomy
C24_KeywordClassifyPicksFirstHighest ==
    (clLast.op # "init" /\ clLast.path = "keyword") =>
        /\ \E c \in DOMAIN JOB_CATEGORIES : JOB_CATEGORIES[c] = clLast.category
        /\ IF \A k \in DOMAIN CATEGORY_KEYWORDS : CountIn(k, TextOf(clLast.job)) = 0
           THEN clLast.category = "Other"
           ELSE \E k \in DOMAIN CATEGORY_KEYWORDS :
                   /\ clLast.category = CATEGORY_KEYWORDS[k].category
                   /\ \A j \in DOMAIN CATEGORY_KEYWORDS :
                         /\ CountIn(j, TextOf(clLast.job)) <= CountIn(k, TextOf(clLast.job))
                         /\ j < k => CountIn(j, TextOf(clLast.job)) < CountIn(k, TextOf(clLast.job))

\* two categories tie for the highest count and the earlier one is returned
C24_Witness ==
    /\ clLast.op = "classify_job"
    /\ clLast.path = "keyword"
    /\ clLast.job = [title |-> <<"T", "e", "a", "c", "h", "e", "r", " ", "n", "u", "r", "s", "e">>]
    /\ CountIn(3, TextOf(clLast.job)) = 1
    /\ CountIn(4, TextOf(clLast.job)) = 1
    /\ clLast.category = "Healthcare"

\* C25: the model file is read at most once, whatever the calls
C25_ModelReadAtMostOnce == clReads <= 1

(***************************************************************************)
(* The phone scorer on its own: the value is a candidate phone text with   *)
(* up to MaxPad characters before and after it.                            *)
(***************************************************************************)
InitPhone ==
    /\ IdleExcept("phone")
    /\ phValue \in {pre \o core \o post :
                       pre \in PhonePadsUpTo(MaxPad), core \in PhoneCores,
                       post \in PhonePadsUpTo(MaxPad)}
    /\ phPc = "called"
    /\ phScore = 0

NextPhone == ScorePhone /\ Frame("phone")

SpecPhone == InitPhone /\ [][NextPhone]_vars

\* C26 as stated: the phone score is 1.0 whenever the value matches the
\* strict phone format, otherwise 0.72 when the value has 7 to 15 digits and
\* 0.25 when it has not, and 0.0 for the empty value.
C26_PhoneScoreByFormatThenDigits ==
    phPc = "done" =>
        phScore = IF phValue = <<>> THEN 0
                  ELSE IF PHONE_RE_match(phValue) THEN 100
                  ELSE IF DigitCount(phValue) \in 7..15 THEN 72
                  ELSE 25

\* C26, amended: the phone score is 0.0 for the empty value; for a value
\* with 7 to 15 digits it is 1.0 when the value without its leading and
\* trailing whitespace matches the strict phone format and 0.72 when not;
\* for every other value it is 0.25, in the strict format or not.
C26_PhoneScoreByDigitsThenTrimmedFormat ==
    phPc = "done" =>
        phScore = IF phValue = <<>> THEN 0
                  ELSE IF DigitCount(phValue) \notin 7..15 THEN 25
                  ELSE IF PHONE_RE_match(Trimmed(phValue)) THEN 100
                  ELSE 72

\* a value in the strict format with more than 15 digits scored 0.25
C26_Witness ==
    /\ phPc = "done"
    /\ PHONE_RE_match(phValue)
    /\ DigitCount(phValue) > 15
    /\ phScore = 25

\* C27: a job preloaded with load_existing_jobs is never admitted as new:
\* whatever the number of jobs preloaded, an add_job that follows the load
\* with a record identical to a preloaded one returns False.
C27_PreloadedJobIsNotNew ==
    [][(/\ call.op = "load_existing_jobs"
        /\ call'.op = "add_job"
        /\ \E i \in DOMAIN call.jobs : call.jobs[i] = call'.job)
          => ~call'.ret]_vars

(***************************************************************************)
(* One index modified by add_job only, with the count of the calls that    *)
(* returned True.  The records offered are those of Jobs and records whose *)
(* description is None, as a scraped field without content is.             *)
(***************************************************************************)
\* Python's None as a field value: no text, texts being sequences of single
\* characters
None == <<"None">>

\* a record with a hash of its own and no description
JobNoDesc ==
    [title |-> <<"e", "a">>, company |-> <<"a", "e">>, description |-> None,
     content_hash |-> <<"h", "1">>]

\* the same content under the hash of JobOther
JobOtherNoDesc == [JobOther EXCEPT !.description = None]

AtomicJobs == Jobs \cup {JobNoDesc, JobOtherNoDesc}

\* _job_to_text(job) raises TypeError: job.get("description", "")[:500]
\* subscripts None
job_to_text_raises(job) == Get(job, "description") = None

\* add_job on a record whose text may not be computable: the text is first
\* computed by is_duplicate ahead of its try block when the corpus has two
\* texts or more, and otherwise by add_job after it has recorded the hash
add_job_untyped(self, job) ==
    IF JobHash(job) \in self.hashes \/ ~job_to_text_raises(job) THEN add_job(self, job)
    ELSE [ret |-> FALSE, raised |-> TRUE,
          check |-> [ret |-> FALSE, failed |-> FALSE, stale |-> FALSE, self |-> self],
          self |-> IF Len(self.corpus) >= 2 THEN self
                   ELSE [self EXCEPT !.hashes = @ \cup {JobHash(job)}]]

\* deduper.add_job(job), the caller going on after an exception
AtomicAdd(job) ==
    \E a \in {add_job_untyped(Self, job)} :
        /\ Len(a.self.corpus) <= MaxCorpus
        /\ SetSelf(a.self)
        /\ call' = [op |-> "add_job", job |-> job, ret |-> a.ret,
                    raised |-> a.raised, failed |-> a.check.failed,
                    stale |-> a.check.stale]
        /\ atAdded' = atAdded + (IF a.ret THEN 1 ELSE 0)

InitAtomic == InitDedup

NextAtomic == \E job \in AtomicJobs : AtomicAdd(job) /\ Frame("atomic")

SpecAtomic == InitAtomic /\ [][NextAtomic]_vars

\* C28: on an index modified only by add_job, the number of recorded hashes
\* equals the number of corpus texts and the number of add_job calls that
\* returned True, in every reachable state: no call, one that raises
\* included, records a hash without its text or a text without its hash.
C28_HashesTextsAndAdmissionsAgree ==
    /\ Cardinality(hashes) = Len(corpus)
    /\ Len(corpus) = atAdded

\* C29: whenever is_duplicate compares a query vector with the index matrix,
\* both come from the same fit of the vectorizer: a call that gets as far as
\* vectorizing the query (hash not recorded, two texts or more, vectorizer
\* fitted) does not refit the vectorizer afterwards, so the fit the query
\* was made under is the fit the matrix compared with belongs to.
C29_QueryAndMatrixFromOneFit ==
    [][(/\ call'.op = "is_duplicate"
        /\ JobHash(call'.job) \notin hashes
        /\ Len(corpus) >= 2
        /\ vectorizer.fitted)
          => vectorizer' = vectorizer]_vars

(***************************************************************************)
(* _split_sections on its own: the text is a sequence of up to MaxLines    *)
(* lines, each a header, a content line or a blank line, handed to the     *)
(* split as it is.                                                         *)
(***************************************************************************)
\* sections = _split_sections(text)
SplitText ==
    /\ ssPc = "called"
    /\ ssSections' = split_sections(Join(<<"\n">>, ssLines))
    /\ ssPc' = "split"
    /\ UNCHANGED ssLines

InitSplit == InitSections

NextSplit == SplitText /\ Frame("sections")

SpecSplit == InitSplit /\ [][NextSplit]_vars

\* the section line k of the text is in: the one opened by the last header
\* line before it, "header" when there is none
SectionAt(lines, k) ==
    LET above == {i \in 1..(k - 1) : HeaderOf(lines[i]) # ""}
    IN  IF above = {} THEN "header"
        ELSE HeaderOf(lines[CHOOSE i \in above : \A j \in above : j <= i])

\* the lines of the text with content that are in section name, in order
LinesUnder(lines, name) ==
    AtIndices(lines, {k \in DOMAIN lines : /\ lines[k] # <<>>
                                           /\ HeaderOf(lines[k]) = ""
                                           /\ SectionAt(lines, k) = name})

\* the lines with content of section name of the mapping returned
LinesOf(sections, name) ==
    IF name \in DOMAIN sections THEN NonEmpty(SplitLines(sections[name])) ELSE <<>>

SectionNames == {SECTION_HEADERS[i].name : i \in DOMAIN SECTION_HEADERS} \cup {"header"}

\* C30: _split_sections loses no content: every line that is not a header
\* is in exactly one section of the mapping returned, the one it stands
\* under, in its original order, also when a header occurs more than once;
\* what precedes the first header is under "header".
C30_SplitLosesNoContent ==
    ssPc = "split" =>
        \A name \in SectionNames :
            LinesOf(ssSections, name) = LinesUnder(ssLines, name)

=============================================================================
